---- MODULE Spec2Model ----
(***************************************************************************)
(* Model of the Ethereum Name Store (useEthNamesStore, src/unnamed/part_002 *)
(* lines 17-197): the ENS worklist, the two address-book mirrors, the name  *)
(* mapping, and the asynchronous operations that refresh them.              *)
(*                                                                          *)
(* JavaScript runs the store on one event loop: an async function runs      *)
(* without interruption from its call to its first `await` and from one     *)
(* `await` to the next.  Every such segment is one action here.  Between    *)
(* two segments an operation is suspended at a backend call; `pending` is   *)
(* the bag of the backend calls awaited, which the backend answers          *)
(* (resolves or rejects) in any order.  What runs when a call is answered   *)
(* depends on the call and on the `location` its caller holds only: every   *)
(* operation ends in `await fetchEthNames()` or `await                      *)
(* fetchEthAddressBook(location)` and does nothing after it.                *)
(*                                                                          *)
(* The module also models the asset-info projections (useAssetInfoRetrieval,*)
(* src/unnamed/part_001 lines 108-266): pure functions of the association   *)
(* setting, the Asset Cache and the fetched collections.  They have their   *)
(* own specification, SpecAssets, in which the name store stays as          *)
(* constructed; in Spec the asset side stays as constructed.                *)
(***************************************************************************)
EXTENDS Integers, Sequences, FiniteSets, Bags, TLC

(***************************************************************************)
(* Bounds and input domains.                                                *)
(***************************************************************************)

\* Number of store operations that may be suspended at an await together.
MaxPending == 2

\* The largest rate or quote amount from which the trade form takes further input.
MaxValue == 4

\* The most logout timers armed at once by successful snapshot imports.
MaxTimers == 2

\* Address strings: three structurally valid ones and a malformed one.
ValidAddresses == {"0xA", "0xB", "0xC"}
Addresses == ValidAddresses \cup {"bad"}

\* Values of `undefined` and `null`, and of an argument that does not apply.
Undefined == "undefined"
Null == "null"
None == "none"

Locations == {"global", "private"}

Entry(address, name) == [address |-> address, name |-> name]

\* Arguments <<addresses, forceUpdate>> the callers pass to fetchEnsNames.
FetchEnsNamesInputs ==
    ({ <<>>, <<"0xA">> } \X BOOLEAN)
      \cup { << <<"bad">>, TRUE >>, << <<"0xB", "bad", "0xB", "0xA">>, FALSE >> }

\* The optional `addresses` argument of fetchEthAddressBook.
NoAddresses == [defined |-> FALSE, value |-> <<>>]
OptionalAddressInputs == { NoAddresses, [defined |-> TRUE, value |-> <<"0xA">>] }

\* Payloads of the address-book mutations.
EntryInputs == { <<Entry("0xC", "Carol")>> }
DeleteInputs == { <<"0xC">> }

\* Entry lists the backend may return for a location.
BookLists == { <<>>, <<Entry("0xC", "Carol"), Entry("0xA", "Alice")>> }

\* Name mappings the backend may return.
NameMaps ==
    { <<>>, ("0xA" :> "alice.eth"), ("0xB" :> "") @@ ("0xC" :> "Carol") }

\* Rejections of a backend call that the store catches: an Error object, or a
\* bare `undefined`.
Errors == { [kind |-> "Error", message |-> "boom"],
            [kind |-> "undefined", message |-> ""] }

\* Rejections of a backend call that is awaited outside a try block: the store
\* never looks at the value.
Thrown == { [kind |-> "Error", message |-> "boom"] }

(***************************************************************************)
(* Input domains of the asset-info projections.                             *)
(***************************************************************************)

\* Asset identifiers: the two the association is about, one the backend does
\* not know, and one that encodes an EVM token.
EvmIdentifiers == {"eip155:1/erc20:0xdAC17"}
AssetIdentifiers == {"ETH", "ETH2", "XYZ"} \cup EvmIdentifiers

\* What a caller may pass as `identifier`: an identifier, '' or undefined.
IdentifierInputs == AssetIdentifiers \cup {"", Undefined}

\* Asset metadata as the Asset Cache holds it.  A field the metadata lacks is
\* Undefined (isCustomAsset: FALSE, which `||` treats as it treats a missing
\* flag).
AssetMetadata(name, symbol, isCustomAsset, assetType, collectionId) ==
    [name |-> name, symbol |-> symbol, isCustomAsset |-> isCustomAsset,
     assetType |-> assetType, collectionId |-> collectionId]

\* Metadata without any field: what `data?.x` and `{...data}` make of a
\* `retrieve` that answers null, and what the cache holds for an asset the
\* backend does not know.
EmptyMetadata == AssetMetadata(Undefined, Undefined, FALSE, Undefined, Undefined)

\* The assetType of a custom asset (CUSTOM_ASSET of @/services/assets/consts).
CUSTOM_ASSET == "custom asset"

\* Metadata the backend may resolve an identifier to.
MetadataValues ==
    { EmptyMetadata,
      AssetMetadata("Ethereum", "ETH", FALSE, "own chain", Undefined),
      AssetMetadata("Token A", "TKA", FALSE, "evm token", "X"),
      AssetMetadata("", Undefined, FALSE, "evm token", "X"),
      AssetMetadata("My Collectible", "IGN", TRUE, Undefined, "X"),
      AssetMetadata(Undefined, "IGN", FALSE, CUSTOM_ASSET, Undefined) }

\* Contents of the fetched-collections mapping: collection id -> its data.
CollectionData(name, symbol) == [name |-> name, symbol |-> symbol]
CollectionMaps ==
    { <<>>,
      ("X" :> CollectionData("Collection A", "COL")),
      ("X" :> CollectionData("Collection A", "")) }

(***************************************************************************)
(* Input domains of the exchange settings panel.                            *)
(***************************************************************************)
Exchange(location, name) == [location |-> location, name |-> name]

\* Connected exchanges: two share a location, two share a name.
Exchanges ==
    { Exchange("kraken", "main"), Exchange("kraken", "second"), Exchange("binance", "main") }

(***************************************************************************)
(* Input domains of the external trade form.                                *)
(***************************************************************************)

\* The text of a numeric field: '' (empty), the digits of a number, or what
\* BigNumber.toFixed() prints for NaN and Infinity.
Text(kind, n) == [kind |-> kind, n |-> n]
Empty == Text("empty", 0)
Num(n) == Text("number", n)
NaN == Text("NaN", 0)
Infinity == Text("Infinity", 0)

\* The fields a user has entered, or setEditMode has loaded (lines 187-197).
Entered(id, amount, rate, fee, feeCurrency, link, notes, type) ==
    [id |-> id, amount |-> amount, rate |-> rate, fee |-> fee,
     feeCurrency |-> feeCurrency, link |-> link, notes |-> notes, type |-> type]

EnteredForms ==
    { Entered("", Num(2), Num(3), Num(1), "EUR", "", "otc", "sell"),
      Entered("t1", Empty, Num(3), Empty, "", "https://x", "", "buy") }

\* What a user types into amount, rate or quoteAmount, and the historic
\* prices the backend may find (0: none).
TypedTexts == { Empty, Num(0), Num(2), Num(3) }
HistoricPrices == { Num(0), Num(2) }

\* The ActionStatus saveData may report: success, failure without a message,
\* failure with a message that holds field errors, failure with a plain one.
ActionStatus(success, message) == [success |-> success, message |-> message]
Statuses ==
    { ActionStatus(TRUE, ""), ActionStatus(FALSE, ""),
      ActionStatus(FALSE, "{\"rate\": [\"invalid\"]}"), ActionStatus(FALSE, "denied") }

(***************************************************************************)
(* State.                                                                   *)
(***************************************************************************)
VARIABLES
    ensAddresses,           \* ref<string[]>: the ENS worklist
    ethNames,               \* ref<EthNames>: address -> name
    ethAddressBookGlobal,   \* ref<EthNamesEntries>: mirror of the global book
    ethAddressBookPrivate,  \* ref<EthNamesEntries>: mirror of the private book
    enableEthNames,         \* frontend setting read by ethNameSelector
    pending,                \* bag of the backend calls that operations are suspended at
    lastStep,               \* what the step just taken did (its calls, notifications, outcome)
    treatEth2AsEth,         \* general setting read by assetAssociationMap
    cache,                  \* Asset Cache: identifier -> metadata it resolved (or its absence)
    assetPending,           \* Asset Cache: identifiers with a fetch in flight
    fetchedAssetCollections, \* Asset Cache: collection id -> collection data
    ethNamesRequests,       \* the getEthNames requests in flight, in the order issued
    exchangePanel,          \* exchange settings panel (part_002 lines 203-303)
    tradeForm,              \* ExternalTradeForm.vue: its refs, queued watchers, awaited save
    snapshotImport,         \* sync indicator (part_000): snapshot files, loading flag, awaited import
    accountForm,            \* AddressAccountForm.vue: its props and refs, position of save()
    tokenDetails            \* fetchTokenDetails (part_001): the invocations and where each stands

store == <<ensAddresses, ethNames, ethAddressBookGlobal, ethAddressBookPrivate>>
nameStoreVars == <<ensAddresses, ethNames, ethAddressBookGlobal, ethAddressBookPrivate,
                   enableEthNames, pending, lastStep>>
assetVars == <<treatEth2AsEth, cache, assetPending, fetchedAssetCollections>>
vars == <<ensAddresses, ethNames, ethAddressBookGlobal, ethAddressBookPrivate,
          enableEthNames, pending, lastStep,
          treatEth2AsEth, cache, assetPending, fetchedAssetCollections,
          ethNamesRequests, exchangePanel, tradeForm,
          snapshotImport, accountForm, tokenDetails>>

\* State of the callers and components around the two stores.
callerVars == <<snapshotImport, accountForm, tokenDetails>>
componentVars == <<ethNamesRequests, exchangePanel, tradeForm, callerVars>>

(***************************************************************************)
(* Helpers of the store.                                                    *)
(***************************************************************************)

\* uniqueStrings(value, index, array): array.indexOf(value) === index, the
\* first occurrence of a string is kept.
uniqueStrings(s, i) == \A j \in 1 .. (i - 1) : s[j] # s[i]

\* array.filter(uniqueStrings)
RECURSIVE FilterUniqueFrom(_, _)
FilterUniqueFrom(s, i) ==
    IF i > Len(s) THEN <<>>
    ELSE (IF uniqueStrings(s, i) THEN <<s[i]>> ELSE <<>>) \o FilterUniqueFrom(s, i + 1)

FilterUnique(s) == FilterUniqueFrom(s, 1)

\* isValidEthAddress(address)
isValidEthAddress(a) == a \in ValidAddresses

FilterValid(s) == SelectSeq(s, isValidEthAddress)

\* items.map(item => item.address)
MapAddress(entries) == [k \in 1 .. Len(entries) |-> entries[k].address]

\* Variant of Nullish: `x || d`, which also replaces the empty string.
NullishOrFalsy(x, d) == IF x = Undefined \/ x = Null \/ x = "" THEN d ELSE x

\* x ?? d
Nullish(x, d) == IF x = Undefined \/ x = Null THEN d ELSE x

\* object[key] of a plain mapping
Lookup(m, key) == IF key \in DOMAIN m THEN m[key] ELSE Undefined

\* e?.message ?? e ?? ''
ErrorMessage(e) == IF e.kind = "Error" THEN e.message ELSE ""

(***************************************************************************)
(* Records of a step: backend calls, notifications, suspended operations.   *)
(***************************************************************************)
Call(api, location, addresses, entries) ==
    [api |-> api, location |-> location, addresses |-> addresses, entries |-> entries]

Notification(title, message) ==
    [title |-> title, message |-> message, display |-> TRUE]

\* A backend call an operation is suspended at.
Request(api, location) == [api |-> api, location |-> location]

Awaited == BagToSet(pending)
CanSuspend == BagCardinality(pending) < MaxPending

\* What the backend answered in a step that resumes an operation.
NoError == [kind |-> "none", message |-> ""]
NoResponse == [kind |-> "none", names |-> <<>>, entries |-> <<>>, ok |-> FALSE, error |-> NoError]
ResolvedNames(m) == [NoResponse EXCEPT !.kind = "resolved", !.names = m]
ResolvedEntries(l) == [NoResponse EXCEPT !.kind = "resolved", !.entries = l]
ResolvedOk(b) == [NoResponse EXCEPT !.kind = "resolved", !.ok = b]
ResolvedVoid == [NoResponse EXCEPT !.kind = "resolved"]
Rejected(e) == [NoResponse EXCEPT !.kind = "rejected", !.error = e]

\* The label of a step: `name` is the operation a caller started in this
\* step ("resume" when the step is the answer to an awaited call), `action` the
\* operation started or the backend call answered.  `issued` are the backend
\* calls the segment made, `notified` the notifications it raised.  `outcome`
\* is "suspended" while the operation awaits a backend call, "returned" when
\* its promise is fulfilled, "raised" when it is rejected.
Step(name, action, location, response, issued, notified, outcome) ==
    [name |-> name, action |-> action, location |-> location,
     addresses |-> <<>>, forceUpdate |-> FALSE, changed |-> FALSE,
     response |-> response, issued |-> issued, notified |-> notified,
     outcome |-> outcome]

\* A started operation suspends at a backend call.
Suspend(r) == pending' = pending (+) SetToBag({r})
\* The operation awaiting r resumes and suspends at the call q, or finishes.
Resume(r, q) == pending' = (pending (-) SetToBag({r})) (+) SetToBag({q})
Finish(r) == pending' = pending (-) SetToBag({r})

(***************************************************************************)
(* Initial state: the refs as defineStore constructs them (lines 20-24).    *)
(* No operation of the store reads enableEthNames, only ethNameSelector     *)
(* does: Init fixes it, InitAnySetting leaves it open.                      *)
(***************************************************************************)
InitStore ==
    /\ ensAddresses = <<>>
    /\ ethNames = <<>>
    /\ ethAddressBookGlobal = <<>>
    /\ ethAddressBookPrivate = <<>>
    /\ pending = EmptyBag
    /\ lastStep = Step("init", "init", None, NoResponse, <<>>, <<>>, "returned")

\* The asset side as constructed: the setting at its default, an empty cache.
InitAssets ==
    /\ treatEth2AsEth = TRUE
    /\ cache = <<>>
    /\ assetPending = {}
    /\ fetchedAssetCollections = <<>>

\* No getEthNames request was issued yet.
NoRequests == [inFlight |-> <<>>, newest |-> <<>>]

\* The exchange settings panel once mounted (lines 235 and 360-362): the
\* settings store lists no exchange, the local list is its copy, and no
\* settings update is awaited.
PanelStep(name, exchange, submitted, notified) ==
    [name |-> name, exchange |-> exchange, submitted |-> submitted, notified |-> notified]

InitExchangePanel ==
    [nonSyncingExchanges |-> <<>>,
     current |-> <<>>,
     awaiting |-> FALSE,
     step |-> PanelStep("mounted", Exchange(None, None), <<>>, FALSE)]

\* The external trade form once mounted without a trade to edit (lines
\* 50-64 and 332-334).  `saving` holds the payload of the awaited saveData
\* call, `returned` what the last save() returned.
NoPayload == [location |-> None]
NoErrors == <<>>

\* No status has been reported by saveData.
NoStatus == [pending |-> TRUE]

InitTradeForm ==
    [id |-> "", amount |-> Empty, rate |-> Empty, quoteAmount |-> Empty,
     selectedCalculationInput |-> "rate",
     fee |-> Empty, feeCurrency |-> "", link |-> "", notes |-> "", type |-> "buy",
     errorMessages |-> NoErrors,
     queue |-> {}, fired |-> 0,
     saving |-> FALSE, payload |-> NoPayload, result |-> NoStatus, returned |-> None,
     event |-> "mounted", step |-> "mounted"]

\* The callers and components as constructed.
\* The sync indicator after setup (part_000 lines 213-226): no file selected,
\* nothing loading.  appSession is fixed by the build (electron or browser).
NoFile == [null |-> TRUE]
NoCall == [api |-> None]

InitSnapshotImport(appSession) ==
    [appSession |-> appSession,
     balanceSnapshotFile |-> NoFile, locationDataSnapshotFile |-> NoFile,
     importSnapshotLoading |-> FALSE,
     call |-> NoCall, outcome |-> None, messages |-> <<>>,
     logoutTimers |-> 0, loggedOut |-> FALSE, step |-> "mounted"]

\* AddressAccountForm after mounting on the ETH chain to add accounts
\* (lines 15-24): no save under way.
Chain(id, evm) == [id |-> id, evm |-> evm]

InitAccountForm ==
    [accountToEdit |-> FALSE, blockchain |-> Chain("ETH", TRUE), allEvmChains |-> TRUE,
     pending |-> FALSE, errorMessages |-> NoErrors,
     pc |-> "idle", wasPending |-> FALSE, log |-> <<>>, returned |-> None]
\* fetchTokenDetails (part_001 lines 233-255): up to MaxPending invocations
\* at a time, none made yet.
NoToken == [pending |-> TRUE]
NoInvocation ==
    [pc |-> "idle", address |-> "", taskId |-> None, failedAt |-> None,
     answer |-> NoToken, notifications |-> <<>>, outcome |-> None, result |-> NoToken]

InitTokenDetails == [k \in 1 .. MaxPending |-> NoInvocation]

InitCallers ==
    /\ accountForm = InitAccountForm
    /\ tokenDetails = InitTokenDetails

InitComponents ==
    /\ ethNamesRequests = NoRequests
    /\ exchangePanel = InitExchangePanel
    /\ tradeForm = InitTradeForm
    /\ snapshotImport = InitSnapshotImport(TRUE)
    /\ InitCallers

\* Either build of the application.
InitEitherBuild ==
    /\ ethNamesRequests = NoRequests
    /\ exchangePanel = InitExchangePanel
    /\ tradeForm = InitTradeForm
    /\ snapshotImport \in { InitSnapshotImport(appSession) : appSession \in BOOLEAN }
    /\ InitCallers

Init == InitStore /\ enableEthNames = TRUE /\ InitAssets /\ InitComponents

InitAnySetting == InitStore /\ enableEthNames \in BOOLEAN /\ InitAssets /\ InitComponents

(***************************************************************************)
(* updateEnsAddresses (lines 47-61).                                        *)
(***************************************************************************)
\* Variant of newEnsAddresses: the merge without its two filters.
newEnsAddressesUnfiltered(current, newAddresses) == current \o newAddresses

newEnsAddresses(current, newAddresses) ==
    FilterValid(FilterUnique(current \o newAddresses))

\* The value updateEnsAddresses returns.
updateEnsAddressesChanged(current, newAddresses) ==
    newEnsAddresses(current, newAddresses) # current

\* Variant of updateEnsAddresses: the merged worklist is computed but never
\* stored (line 57 missing).
updateEnsAddressesNotStored(current, newAddresses) == current

\* The worklist updateEnsAddresses leaves.
updateEnsAddresses(current, newAddresses) ==
    IF updateEnsAddressesChanged(current, newAddresses)
    THEN newEnsAddresses(current, newAddresses)
    ELSE current

(***************************************************************************)
(* fetchEthNames (lines 89-108).                                            *)
(***************************************************************************)

\* The argument of getEthNames (lines 90-94).
fetchEthNamesAddresses(global, private, ens) ==
    FilterUnique(MapAddress(global) \o MapAddress(private) \o ens)

getEthNamesCall(global, private, ens) ==
    Call("getEthNames", None, fetchEthNamesAddresses(global, private, ens), <<>>)

\* Variant of setEthNames: the response is patched into the old mapping.
setEthNamesMerged(old, result) == result @@ old

\* set(ethNames, result) (line 98)
setEthNames(old, result) == result

\* Variant of ethNamesError: the notification drops the error's message.
ethNamesErrorWithoutMessage(e) ==
    Notification("eth_names.error.title", <<"eth_names.error.message", "">>)

\* The notification of the catch block (lines 99-107).
ethNamesError(e) ==
    Notification("eth_names.error.title", <<"eth_names.error.message", ErrorMessage(e)>>)

\* A direct call of fetchEthNames(): up to `await getEthNames(addresses)`.
FetchEthNames ==
    /\ CanSuspend
    /\ Suspend(Request("getEthNames", None))
    /\ lastStep' = Step("fetchEthNames", "fetchEthNames", None, NoResponse,
                        <<getEthNamesCall(ethAddressBookGlobal, ethAddressBookPrivate,
                                          ensAddresses)>>,
                        <<>>, "suspended")
    /\ UNCHANGED <<store, enableEthNames>>

\* getEthNames resolved: lines 97-98, for whichever operation awaits it.
GetEthNamesResolves(r, result) ==
    /\ r \in Awaited /\ r.api = "getEthNames"
    /\ ethNames' = setEthNames(ethNames, result)
    /\ Finish(r)
    /\ lastStep' = Step("resume", "getEthNames", r.location,
                        ResolvedNames(result), <<>>, <<>>, "returned")
    /\ UNCHANGED <<ensAddresses, ethAddressBookGlobal, ethAddressBookPrivate, enableEthNames>>

\* getEthNames rejected: the catch block, lines 99-107.
GetEthNamesRejects(r, e) ==
    /\ r \in Awaited /\ r.api = "getEthNames"
    /\ Finish(r)
    /\ lastStep' = Step("resume", "getEthNames", r.location,
                        Rejected(e), <<>>, <<ethNamesError(e)>>, "returned")
    /\ UNCHANGED <<store, enableEthNames>>

(***************************************************************************)
(* fetchEnsNames (lines 63-87).                                             *)
(***************************************************************************)

\* Variant of fetchEnsNamesReturnsEarly: line 72 missing.
fetchEnsNamesReturnsEarlyOnlyWhenEmpty(addresses, forceUpdate, changed) ==
    Len(addresses) = 0

\* The short-circuit of lines 67 and 72.
fetchEnsNamesReturnsEarly(addresses, forceUpdate, changed) ==
    \/ Len(addresses) = 0
    \/ (~forceUpdate /\ ~changed)

\* The segment from the call to the first await (or to the return).
FetchEnsNames(addresses, forceUpdate) ==
    LET changed == updateEnsAddressesChanged(ensAddresses, addresses)
        latestEnsAddresses ==
            IF Len(addresses) = 0 THEN ensAddresses
            ELSE updateEnsAddresses(ensAddresses, addresses)
        early == fetchEnsNamesReturnsEarly(addresses, forceUpdate, changed)
        calls == ~early /\ Len(latestEnsAddresses) > 0
        api == IF forceUpdate THEN "getEnsNamesTask" ELSE "getEnsNames"
        label == [Step("fetchEnsNames", "fetchEnsNames", None, NoResponse, <<>>, <<>>,
                       "returned")
                  EXCEPT !.addresses = addresses, !.forceUpdate = forceUpdate,
                         !.changed = (Len(addresses) > 0 /\ changed)]
    IN  /\ calls => CanSuspend
        /\ ensAddresses' = latestEnsAddresses
        /\ IF calls
           THEN /\ Suspend(Request(api, None))
                /\ lastStep' = [label EXCEPT
                                  !.issued = <<Call(api, None, latestEnsAddresses, <<>>)>>,
                                  !.outcome = "suspended"]
           ELSE /\ UNCHANGED pending
                /\ lastStep' = label
        /\ UNCHANGED <<ethNames, ethAddressBookGlobal, ethAddressBookPrivate, enableEthNames>>

\* getEnsNamesTask resolved with a task id: line 79 starts awaitTask.
GetEnsNamesTaskResolves(r) ==
    /\ r \in Awaited /\ r.api = "getEnsNamesTask"
    /\ Resume(r, Request("awaitTask", None))
    /\ lastStep' = Step("resume", "getEnsNamesTask", None, ResolvedVoid,
                        <<Call("awaitTask", None, <<>>, <<>>)>>, <<>>, "suspended")
    /\ UNCHANGED <<store, enableEthNames>>

\* awaitTask or getEnsNames resolved: line 85 calls fetchEthNames().
EnsResolutionResolves(r, api) ==
    /\ r \in Awaited /\ r.api = api
    /\ Resume(r, Request("getEthNames", None))
    /\ lastStep' = Step("resume", api, None, ResolvedVoid,
                        <<getEthNamesCall(ethAddressBookGlobal, ethAddressBookPrivate,
                                          ensAddresses)>>,
                        <<>>, "suspended")
    /\ UNCHANGED <<store, enableEthNames>>

AwaitTaskResolves(r) == EnsResolutionResolves(r, "awaitTask")
GetEnsNamesResolves(r) == EnsResolutionResolves(r, "getEnsNames")

\* A rejection at line 78, 79 or 83: fetchEnsNames has no try block, the
\* rejection becomes the rejection of its own promise.
EnsResolutionRejects(r, api, e) ==
    /\ r \in Awaited /\ r.api = api
    /\ Finish(r)
    /\ lastStep' = Step("resume", api, None, Rejected(e), <<>>, <<>>, "raised")
    /\ UNCHANGED <<store, enableEthNames>>

GetEnsNamesTaskRejects(r, e) == EnsResolutionRejects(r, "getEnsNamesTask", e)
AwaitTaskRejects(r, e) == EnsResolutionRejects(r, "awaitTask", e)
GetEnsNamesRejects(r, e) == EnsResolutionRejects(r, "getEnsNames", e)

(***************************************************************************)
(* updateEthAddressBookState and fetchEthAddressBook (lines 116-150).       *)
(***************************************************************************)

\* The mirrors after lines 120-124.
updateEthAddressBookGlobal(location, result) ==
    IF location = "global" THEN result ELSE ethAddressBookGlobal

\* Variant of updateEthAddressBookPrivate: the private mirror is set whatever
\* the location.
updateEthAddressBookPrivateAlways(location, result) == result

updateEthAddressBookPrivate(location, result) ==
    IF location = "global" THEN ethAddressBookPrivate ELSE result

\* notifyError (lines 133-143)
ethAddressBookError(e) ==
    Notification("eth_address_book.actions.fetch.error.title",
                 <<"eth_address_book.actions.fetch.error.message", ErrorMessage(e)>>)

getEthAddressBookCall(location, addresses) ==
    Call("getEthAddressBook", location, addresses, <<>>)

\* A direct call of fetchEthAddressBook: up to `await getEthAddressBook`.
FetchEthAddressBook(location, addresses) ==
    /\ CanSuspend
    /\ Suspend(Request("getEthAddressBook", location))
    /\ lastStep' = Step("fetchEthAddressBook", "fetchEthAddressBook", location, NoResponse,
                        <<getEthAddressBookCall(location, addresses)>>, <<>>, "suspended")
    /\ UNCHANGED <<store, enableEthNames>>

\* getEthAddressBook resolved: line 146 replaces the mirror and calls
\* fetchEthNames(), which runs to its `await getEthNames`.
GetEthAddressBookResolves(r, result) ==
    /\ r \in Awaited /\ r.api = "getEthAddressBook"
    /\ ethAddressBookGlobal' = updateEthAddressBookGlobal(r.location, result)
    /\ ethAddressBookPrivate' = updateEthAddressBookPrivate(r.location, result)
    /\ Resume(r, Request("getEthNames", None))
    /\ lastStep' = Step("resume", "getEthAddressBook", r.location,
                        ResolvedEntries(result),
                        <<getEthNamesCall(ethAddressBookGlobal', ethAddressBookPrivate',
                                          ensAddresses)>>,
                        <<>>, "suspended")
    /\ UNCHANGED <<ensAddresses, ethNames, enableEthNames>>

\* Variant of GetEthAddressBookRejects: fetchEthNames() runs after the
\* notification.
GetEthAddressBookRejectsThenRefreshes(r, e) ==
    /\ r \in Awaited /\ r.api = "getEthAddressBook"
    /\ Resume(r, Request("getEthNames", None))
    /\ lastStep' = Step("resume", "getEthAddressBook", r.location, Rejected(e),
                        <<getEthNamesCall(ethAddressBookGlobal, ethAddressBookPrivate,
                                          ensAddresses)>>,
                        <<ethAddressBookError(e)>>, "suspended")
    /\ UNCHANGED <<store, enableEthNames>>

\* getEthAddressBook rejected: the catch block, line 148.
GetEthAddressBookRejects(r, e) ==
    /\ r \in Awaited /\ r.api = "getEthAddressBook"
    /\ Finish(r)
    /\ lastStep' = Step("resume", "getEthAddressBook", r.location,
                        Rejected(e), <<>>, <<ethAddressBookError(e)>>, "returned")
    /\ UNCHANGED <<store, enableEthNames>>

(***************************************************************************)
(* addEthAddressBook, updateEthAddressBook, deleteEthAddressBook            *)
(* (lines 152-183).  The three have the same shape; `api` is the backend    *)
(* mutation each awaits first.                                              *)
(***************************************************************************)
MutationStarts(name, api, location, payload) ==
    /\ CanSuspend
    /\ Suspend(Request(api, location))
    /\ lastStep' = Step(name, name, location, NoResponse,
                        <<Call(api, location, <<>>, payload)>>, <<>>, "suspended")
    /\ UNCHANGED <<store, enableEthNames>>

\* Variant of MutationResolves: the list is fetched whatever the result.
MutationResolvesIgnoringResult(r, api, result) ==
    /\ r \in Awaited /\ r.api = api
    /\ Resume(r, Request("getEthAddressBook", r.location))
    /\ lastStep' = Step("resume", api, r.location, ResolvedOk(result),
                        <<getEthAddressBookCall(r.location, NoAddresses)>>,
                        <<>>, "suspended")
    /\ UNCHANGED <<store, enableEthNames>>

\* `if (result) await fetchEthAddressBook(location)`
MutationResolves(r, api, result) ==
    /\ r \in Awaited /\ r.api = api
    /\ IF result
       THEN /\ Resume(r, Request("getEthAddressBook", r.location))
            /\ lastStep' = Step("resume", api, r.location,
                                ResolvedOk(result),
                                <<getEthAddressBookCall(r.location, NoAddresses)>>,
                                <<>>, "suspended")
       ELSE /\ Finish(r)
            /\ lastStep' = Step("resume", api, r.location,
                                ResolvedOk(result), <<>>, <<>>, "returned")
    /\ UNCHANGED <<store, enableEthNames>>

\* The mutation is awaited outside any try block.
MutationRejects(r, api, e) ==
    /\ r \in Awaited /\ r.api = api
    /\ Finish(r)
    /\ lastStep' = Step("resume", api, r.location,
                        Rejected(e), <<>>, <<>>, "raised")
    /\ UNCHANGED <<store, enableEthNames>>

AddEthAddressBook(location, entries) ==
    MutationStarts("addEthAddressBook", "addAddressBook", location, entries)
AddAddressBookResolves(r, result) == MutationResolves(r, "addAddressBook", result)
AddAddressBookRejects(r, e) == MutationRejects(r, "addAddressBook", e)

UpdateEthAddressBook(location, entries) ==
    MutationStarts("updateEthAddressBook", "updateAddressBook", location, entries)
UpdateAddressBookResolves(r, result) == MutationResolves(r, "updateAddressBook", result)
UpdateAddressBookRejects(r, e) == MutationRejects(r, "updateAddressBook", e)

DeleteEthAddressBook(location, addresses) ==
    MutationStarts("deleteEthAddressBook", "deleteAddressBook", location, addresses)
DeleteAddressBookResolves(r, result) == MutationResolves(r, "deleteAddressBook", result)
DeleteAddressBookRejects(r, e) == MutationRejects(r, "deleteAddressBook", e)

(***************************************************************************)
(* ethNameSelector (lines 110-114) and the setting it reads.                *)
(***************************************************************************)
ethNameSelector(address) ==
    IF ~enableEthNames THEN Null
    ELSE Nullish(Lookup(ethNames, address), Null)

\* The user switches the name-display setting (useFrontendSettingsStore).
SetEnableEthNames(value) ==
    /\ enableEthNames # value
    /\ enableEthNames' = value
    /\ lastStep' = Step("settings", "enableEthNames", None, NoResponse, <<>>, <<>>, "returned")
    /\ UNCHANGED <<store, pending>>

(***************************************************************************)
(* The store: any caller may start any operation; the backend answers the   *)
(* awaited calls in any order.                                              *)
(***************************************************************************)
Next ==
    \/ \E input \in FetchEnsNamesInputs : FetchEnsNames(input[1], input[2]) /\ UNCHANGED <<assetVars, componentVars>>
    \/ \E r \in Awaited : GetEnsNamesResolves(r) /\ UNCHANGED <<assetVars, componentVars>>
    \/ \E r \in Awaited, e \in Thrown : GetEnsNamesRejects(r, e) /\ UNCHANGED <<assetVars, componentVars>>
    \/ \E r \in Awaited : GetEnsNamesTaskResolves(r) /\ UNCHANGED <<assetVars, componentVars>>
    \/ \E r \in Awaited, e \in Thrown : GetEnsNamesTaskRejects(r, e) /\ UNCHANGED <<assetVars, componentVars>>
    \/ \E r \in Awaited : AwaitTaskResolves(r) /\ UNCHANGED <<assetVars, componentVars>>
    \/ \E r \in Awaited, e \in Thrown : AwaitTaskRejects(r, e) /\ UNCHANGED <<assetVars, componentVars>>
    \/ FetchEthNames /\ UNCHANGED <<assetVars, componentVars>>
    \/ \E r \in Awaited, result \in NameMaps : GetEthNamesResolves(r, result) /\ UNCHANGED <<assetVars, componentVars>>
    \/ \E r \in Awaited, e \in Errors : GetEthNamesRejects(r, e) /\ UNCHANGED <<assetVars, componentVars>>
    \/ \E location \in Locations, addresses \in OptionalAddressInputs :
          FetchEthAddressBook(location, addresses) /\ UNCHANGED <<assetVars, componentVars>>
    \/ \E r \in Awaited, result \in BookLists : GetEthAddressBookResolves(r, result) /\ UNCHANGED <<assetVars, componentVars>>
    \/ \E r \in Awaited, e \in Errors : GetEthAddressBookRejects(r, e) /\ UNCHANGED <<assetVars, componentVars>>
    \/ \E location \in Locations, entries \in EntryInputs :
          AddEthAddressBook(location, entries) /\ UNCHANGED <<assetVars, componentVars>>
    \/ \E r \in Awaited, result \in BOOLEAN : AddAddressBookResolves(r, result) /\ UNCHANGED <<assetVars, componentVars>>
    \/ \E r \in Awaited, e \in Thrown : AddAddressBookRejects(r, e) /\ UNCHANGED <<assetVars, componentVars>>
    \/ \E location \in Locations, entries \in EntryInputs :
          UpdateEthAddressBook(location, entries) /\ UNCHANGED <<assetVars, componentVars>>
    \/ \E r \in Awaited, result \in BOOLEAN : UpdateAddressBookResolves(r, result) /\ UNCHANGED <<assetVars, componentVars>>
    \/ \E r \in Awaited, e \in Thrown : UpdateAddressBookRejects(r, e) /\ UNCHANGED <<assetVars, componentVars>>
    \/ \E location \in Locations, addresses \in DeleteInputs :
          DeleteEthAddressBook(location, addresses) /\ UNCHANGED <<assetVars, componentVars>>
    \/ \E r \in Awaited, result \in BOOLEAN : DeleteAddressBookResolves(r, result) /\ UNCHANGED <<assetVars, componentVars>>
    \/ \E r \in Awaited, e \in Thrown : DeleteAddressBookRejects(r, e) /\ UNCHANGED <<assetVars, componentVars>>

Spec == Init /\ [][Next]_vars

\* The store together with the user's changes of the name-display setting.
NextWithSettings ==
    \/ Next
    \/ \E value \in BOOLEAN : SetEnableEthNames(value) /\ UNCHANGED <<assetVars, componentVars>>

SpecWithSettings == InitAnySetting /\ [][NextWithSettings]_vars

(***************************************************************************)
(* Overlapping fetchEthNames requests.                                      *)
(*                                                                          *)
(* Every `await getEthNames(addresses)` (line 97) is a request of its own,  *)
(* and the backend answers the requests in any order.  ethNamesRequests     *)
(* tells the requests in flight apart: inFlight has one flag per request,   *)
(* oldest first, set once a request issued after it was answered; newest is *)
(* the response to the latest-issued request among those answered so far.   *)
(***************************************************************************)

\* The components other than the requests.
exceptRequests == <<exchangePanel, tradeForm, callerVars>>

\* fetchEthNames reaches line 97.
GetEthNamesIssued ==
    ethNamesRequests' = [ethNamesRequests EXCEPT !.inFlight = Append(@, FALSE)]

\* The backend answers the i-th request in flight with `result`.
GetEthNamesAnswered(i, result) ==
    LET inFlight == ethNamesRequests.inFlight
    IN  /\ i \in 1 .. Len(inFlight)
        /\ ethNamesRequests' =
              [inFlight |-> [k \in 1 .. (Len(inFlight) - 1) |->
                                IF k < i THEN TRUE ELSE inFlight[k + 1]],
               newest |-> IF inFlight[i] THEN ethNamesRequests.newest ELSE result]

\* Callers that refresh names through fetchEthNames() and fetchEnsNames(),
\* all of whose backend calls succeed.
NextOverlap ==
    \/ FetchEthNames /\ GetEthNamesIssued /\ UNCHANGED <<assetVars, exceptRequests>>
    \/ \E input \in FetchEnsNamesInputs :
          /\ FetchEnsNames(input[1], input[2])
          /\ UNCHANGED <<assetVars, componentVars>>
    \/ \E r \in Awaited :
          GetEnsNamesResolves(r) /\ GetEthNamesIssued /\ UNCHANGED <<assetVars, exceptRequests>>
    \/ \E r \in Awaited :
          GetEnsNamesTaskResolves(r) /\ UNCHANGED <<assetVars, componentVars>>
    \/ \E r \in Awaited :
          AwaitTaskResolves(r) /\ GetEthNamesIssued /\ UNCHANGED <<assetVars, exceptRequests>>
    \/ \E r \in Awaited, result \in NameMaps, i \in 1 .. MaxPending :
          /\ GetEthNamesResolves(r, result)
          /\ GetEthNamesAnswered(i, result)
          /\ UNCHANGED <<assetVars, exceptRequests>>

SpecOverlap == Init /\ [][NextOverlap]_vars

(***************************************************************************)
(* The asset-info projections (useAssetInfoRetrieval, src/unnamed/part_001  *)
(* lines 108-266).                                                          *)
(*                                                                          *)
(* A projection is a computed value: a function of the refs it reads.  It   *)
(* is an operator of the state here, and evaluating it is an action only    *)
(* for what the Asset Cache does when asked for a key it does not hold.     *)
(***************************************************************************)

\* JavaScript truthiness of a string-valued field, and `a || b`.
Truthy(x) == x \notin {Undefined, Null, ""}
LogicalOr(a, b) == IF Truthy(a) THEN a ELSE b

\* The value `null` of a projection.  `info?.field` of it is undefined.
NullInfo == [null |-> TRUE]
Field(info, field) == IF field \in DOMAIN info THEN info[field] ELSE Undefined

\* isEvmIdentifier and getAddressFromEvmIdentifier (@/utils/assets): the
\* structural test of an identifier, and the address it encodes ('' when it
\* encodes none).
isEvmIdentifier(id) == id \in EvmIdentifiers
getAddressFromEvmIdentifier(id) ==
    IF id = "eip155:1/erc20:0xdAC17" THEN "0xdAC17" ELSE ""

\* The Asset Cache (useAssetCacheStore): isPending(identifier), and the value
\* of retrieve(key), null for a key the cache has not resolved.
isPending(identifier) == identifier \in assetPending
retrieve(key) == IF key \in DOMAIN cache THEN cache[key] ELSE EmptyMetadata

\* assetAssociationMap (lines 118-126).
assetAssociationMapWithCycle ==
    IF treatEth2AsEth THEN ("ETH2" :> "ETH") @@ ("ETH" :> "ETH2") ELSE <<>>

assetAssociationMap == IF treatEth2AsEth THEN ("ETH2" :> "ETH") ELSE <<>>

\* getAssociatedAssetIdentifier (lines 128-133): associationMap[identifier] ?? identifier.
getAssociatedAssetIdentifierAnySetting(identifier) ==
    IF identifier = "ETH2" THEN "ETH" ELSE identifier

getAssociatedAssetIdentifier(identifier) ==
    Nullish(Lookup(assetAssociationMap, identifier), identifier)

\* getAssetNameFallback (lines 135-141).
getAssetNameFallbackEmpty(id) == ""

getAssetNameFallback(id) ==
    IF isEvmIdentifier(id)
    THEN "EVM Token: " \o getAddressFromEvmIdentifier(id)
    ELSE ""

\* assetInfo, its early returns (lines 148-154): no identifier, or the
\* identifier is pending.
assetInfoIsNullWithoutIdentifier(id) == ~Truthy(id)

assetInfoIsNull(id) == ~Truthy(id) \/ isPending(id)

\* assetInfo, the key it asks the cache for (lines 156-158).
assetInfoKeyAssociated(id, enableAssociation) == getAssociatedAssetIdentifier(id)

assetInfoKey(id, enableAssociation) ==
    IF enableAssociation THEN getAssociatedAssetIdentifier(id) ELSE id

\* A custom-asset test that takes every asset but an EVM token for custom.
isCustomAssetUnlessToken(data) == data.isCustomAsset \/ data.assetType # "evm token"

\* assetInfo, the custom-asset test (lines 162-163).
isCustomAsset(data) == data.isCustomAsset \/ data.assetType = CUSTOM_ASSET

\* assetInfo, the record of a custom asset (lines 165-171):
\* { ...data, symbol: data.name, isCustomAsset }.
customAssetInfoKeepingSymbol(data) == [data EXCEPT !.isCustomAsset = isCustomAsset(data)]

customAssetInfo(data) ==
    [data EXCEPT !.symbol = data.name, !.isCustomAsset = isCustomAsset(data)]

\* assetInfo, the collection of the item (lines 172-176); null reads as a
\* collection without name and symbol.
NoCollection == CollectionData(Undefined, Undefined)

\* get(fetchedAssetCollections)[collectionId]
collectionOf(collectionId) ==
    IF collectionId \in DOMAIN fetchedAssetCollections
    THEN fetchedAssetCollections[collectionId]
    ELSE NoCollection

collectionDataOfAnyItem(data, isCollectionParent) ==
    IF Truthy(data.collectionId)
    THEN collectionOf(data.collectionId)
    ELSE NoCollection

collectionData(data, isCollectionParent) ==
    IF isCollectionParent /\ Truthy(data.collectionId)
    THEN collectionOf(data.collectionId)
    ELSE NoCollection

\* assetInfo, the record of any other asset (lines 178-188):
\* { ...data, isCustomAsset, name, symbol }.
otherAssetInfoAsCached(id, data, collection) ==
    [data EXCEPT !.isCustomAsset = isCustomAsset(data)]

otherAssetInfo(id, data, collection) ==
    [data EXCEPT
        !.isCustomAsset = isCustomAsset(data),
        !.name = LogicalOr(collection.name, LogicalOr(data.name, getAssetNameFallback(id))),
        !.symbol = LogicalOr(collection.symbol,
                             LogicalOr(data.symbol, getAssetNameFallback(id)))]

\* assetInfo (lines 143-189).
assetInfo(identifier, enableAssociation, isCollectionParent) ==
    IF assetInfoIsNull(identifier) THEN NullInfo
    ELSE LET data == retrieve(assetInfoKey(identifier, enableAssociation))
         IN  IF isCustomAsset(data) THEN customAssetInfo(data)
             ELSE otherAssetInfo(identifier, data, collectionData(data, isCollectionParent))

\* assetSymbol (lines 191-203) and assetName (lines 205-217); both call
\* assetInfo without its third argument, which defaults to true.
assetSymbolUnguarded(identifier, enableAssociation) ==
    Field(assetInfo(identifier, enableAssociation, TRUE), "symbol")

assetSymbol(identifier, enableAssociation) ==
    IF ~Truthy(identifier) THEN ""
    ELSE LET symbol == Field(assetInfo(identifier, enableAssociation, TRUE), "symbol")
         IN  IF Truthy(symbol) THEN symbol ELSE ""

assetName(identifier, enableAssociation) ==
    IF ~Truthy(identifier) THEN ""
    ELSE LET name == Field(assetInfo(identifier, enableAssociation, TRUE), "name")
         IN  IF Truthy(name) THEN name ELSE ""

\* tokenAddress (lines 219-231).
tokenAddress(identifier, enableAssociation) ==
    IF ~Truthy(identifier) THEN ""
    ELSE getAddressFromEvmIdentifier(
            IF enableAssociation THEN getAssociatedAssetIdentifier(identifier)
            ELSE identifier)

\* Whether evaluating assetInfo throws.  The getter reads a property of
\* `data` without `?.` at line 168 (data.name, in the custom-asset branch) and
\* at line 175 (data.collectionId, once data?.collectionId was truthy); it
\* throws a TypeError when data is null there.
assetInfoRaises(identifier, enableAssociation, isCollectionParent) ==
    /\ ~assetInfoIsNull(identifier)
    /\ LET data == retrieve(assetInfoKey(identifier, enableAssociation))
       IN  /\ data = EmptyMetadata
           /\ \/ isCustomAsset(data)
              \/ isCollectionParent /\ Truthy(data.collectionId)

\* A component evaluates assetInfo (assetSymbol and assetName evaluate it
\* too).  The getter reads the cache at line 160, and the cache queues a
\* fetch of a key it neither holds nor is fetching.
EvaluateAssetInfo(identifier, enableAssociation, isCollectionParent) ==
    /\ ~assetInfoIsNull(identifier)
    /\ LET key == assetInfoKey(identifier, enableAssociation)
       IN  assetPending' =
              IF key \in DOMAIN cache \/ key \in assetPending
              THEN assetPending
              ELSE assetPending \cup {key}
    /\ UNCHANGED <<treatEth2AsEth, cache, fetchedAssetCollections>>

\* The Asset Cache resolves the fetch of a key: to the asset's metadata, or
\* to none for an asset the backend does not know.
AssetCacheResolves(key, data) ==
    /\ key \in assetPending
    /\ assetPending' = assetPending \ {key}
    /\ cache' = (key :> data) @@ cache
    /\ UNCHANGED <<treatEth2AsEth, fetchedAssetCollections>>

\* The Asset Cache fetched the collections.
AssetCollectionsFetched(collections) ==
    /\ fetchedAssetCollections' = collections
    /\ UNCHANGED <<treatEth2AsEth, cache, assetPending>>

\* The user changes the "treat ETH2 as ETH" setting.
SetTreatEth2AsEth(value) ==
    /\ treatEth2AsEth' = value
    /\ UNCHANGED <<cache, assetPending, fetchedAssetCollections>>

NextAssets ==
    \/ \E identifier \in IdentifierInputs, enableAssociation, isCollectionParent \in BOOLEAN :
          /\ EvaluateAssetInfo(identifier, enableAssociation, isCollectionParent)
          /\ UNCHANGED <<nameStoreVars, componentVars>>
    \/ \E key \in AssetIdentifiers, data \in MetadataValues :
          AssetCacheResolves(key, data) /\ UNCHANGED <<nameStoreVars, componentVars>>
    \/ \E collections \in CollectionMaps :
          AssetCollectionsFetched(collections) /\ UNCHANGED <<nameStoreVars, componentVars>>
    \/ \E value \in BOOLEAN : SetTreatEth2AsEth(value) /\ UNCHANGED <<nameStoreVars, componentVars>>

SpecAssets == Init /\ [][NextAssets]_vars

\* The projections of both stores.  The name store is as a fetchEthNames on
\* the constructed store leaves it, with any mapping the backend may have
\* answered, under either value of the name-display setting.
InitProjections ==
    /\ ensAddresses = <<>>
    /\ ethNames \in NameMaps
    /\ ethAddressBookGlobal = <<>>
    /\ ethAddressBookPrivate = <<>>
    /\ pending = EmptyBag
    /\ lastStep = Step("init", "init", None, NoResponse, <<>>, <<>>, "returned")
    /\ enableEthNames \in BOOLEAN
    /\ InitAssets
    /\ InitComponents

SpecProjections == InitProjections /\ [][NextAssets]_vars

(***************************************************************************)
(* The exchange settings panel (src/unnamed/part_002 lines 203-420): its    *)
(* local list of non-syncing exchanges and toggleSync (lines 254-303).      *)
(***************************************************************************)

\* The stores and the components other than the panel.
exceptExchangePanel == <<nameStoreVars, assetVars, ethNamesRequests, tradeForm, callerVars>>

\* findNonSyncExchangeIndex (lines 254-258), counted from 1; 0 for -1.
findNonSyncExchangeIndex(list, exchange) ==
    LET matches == { k \in 1 .. Len(list) :
                        list[k].name = exchange.name /\ list[k].location = exchange.location }
    IN  IF matches = {} THEN 0
        ELSE CHOOSE k \in matches : \A j \in matches : k <= j

\* data.splice(index): removes every element from `index` to the end.
splice(data, index) == SubSeq(data, 1, index - 1)

\* toggleSync, lines 269-280: the list it submits.
toggleSyncData(list, exchange) ==
    LET index == findNonSyncExchangeIndex(list, exchange)
    IN  IF index > 0 THEN splice(list, index)
        ELSE Append(list, Exchange(exchange.location, exchange.name))

\* toggleSync(exchange), up to `await update(...)` (lines 268-284).
ToggleSync(exchange) ==
    /\ ~exchangePanel.awaiting
    /\ exchangePanel' =
          [exchangePanel EXCEPT
              !.awaiting = TRUE,
              !.step = PanelStep("toggleSync", exchange,
                                 toggleSyncData(exchangePanel.nonSyncingExchanges, exchange),
                                 FALSE)]

\* update(...) returned its status (lines 286-302).  The settings store holds
\* the submitted list when the update succeeded, and what it held otherwise.
UpdateReturns(success) ==
    /\ exchangePanel.awaiting
    /\ LET current == IF success THEN exchangePanel.step.submitted ELSE exchangePanel.current
       IN  exchangePanel' =
              [nonSyncingExchanges |-> current,
               current |-> current,
               awaiting |-> FALSE,
               step |-> PanelStep("updateReturned", exchangePanel.step.exchange,
                                  exchangePanel.step.submitted, ~success)]

NextExchangePanel ==
    \/ \E exchange \in Exchanges : ToggleSync(exchange) /\ UNCHANGED exceptExchangePanel
    \/ \E success \in BOOLEAN : UpdateReturns(success) /\ UNCHANGED exceptExchangePanel

SpecExchangePanel == Init /\ [][NextExchangePanel]_vars

(***************************************************************************)
(* The external trade form (ExternalTradeForm.vue): save and reset.         *)
(***************************************************************************)

\* The stores and the components other than the trade form.
exceptTradeForm == <<nameStoreVars, assetVars, ethNamesRequests, exchangePanel, callerVars>>

\* bigNumberifyFromRef(ref) of a field text, and Zero.
isNaN(text) == text.kind \in {"empty", "NaN"}
isZero(text) == text.kind = "number" /\ text.n = 0
Zero == Num(0)

\* A string field of the payload: `get(x) ? get(x) : undefined`.
OrUndefined(x) == IF x = "" THEN Undefined ELSE x

\* tradePayload (lines 205-217), without the fields the form does not model
\* (baseAsset, quoteAsset, timestamp).
tradePayload(form) ==
    [amount |-> IF isNaN(form.amount) THEN Zero ELSE form.amount,
     fee |-> IF isNaN(form.fee) \/ isZero(form.fee) THEN Empty ELSE form.fee,
     feeCurrency |-> OrUndefined(form.feeCurrency),
     link |-> OrUndefined(form.link),
     notes |-> OrUndefined(form.notes),
     rate |-> IF isNaN(form.rate) THEN Zero ELSE form.rate,
     location |-> "external",
     tradeType |-> form.type]

\* The argument of saveData (lines 220-222).
savePayloadAlwaysWithTradeId(form) == [tradeId |-> form.id] @@ tradePayload(form)

savePayload(form) ==
    IF form.id = "" THEN tradePayload(form)
    ELSE [tradeId |-> form.id] @@ tradePayload(form)

\* reset (lines 167-178).
reset(form) ==
    [form EXCEPT !.id = "", !.amount = Empty, !.rate = Empty, !.fee = Empty,
                 !.feeCurrency = "", !.link = "", !.notes = "", !.type = "buy",
                 !.errorMessages = NoErrors]

\* convertKeys(deserializeApiErrorMessage(message) ?? {}, true, false): the
\* field errors a message holds, none when it is not a serialised object.
deserializeApiErrorMessage(message) ==
    IF message = "{\"rate\": [\"invalid\"]}" THEN ("rate" :> <<"invalid">>) ELSE NoErrors

\* set(ref, value) of a watched ref: a change queues the ref's watcher.
Watchers == {"rate", "amount", "quoteAmount"}

SetRef(form, field, value) ==
    IF form[field] = value THEN form
    ELSE [form EXCEPT ![field] = value,
                      !.queue = IF field \in Watchers THEN @ \cup {field} ELSE @]

\* new BigNumber(a).multipliedBy(new BigNumber(b)).toFixed()
multipliedBy(a, b) ==
    IF a.kind = "number" /\ b.kind = "number" THEN Num(a.n * b.n)
    ELSE IF isNaN(a) \/ isNaN(b) \/ isZero(a) \/ isZero(b) THEN NaN
    ELSE Infinity

\* new BigNumber(a).div(new BigNumber(b)).toFixed(): the quotient, rounded to
\* the digits BigNumber keeps (here: to an integer).
div(a, b) ==
    IF isNaN(a) \/ isNaN(b) THEN NaN
    ELSE IF a.kind = "Infinity" THEN (IF b.kind = "Infinity" THEN NaN ELSE Infinity)
    ELSE IF b.kind = "Infinity" THEN Zero
    ELSE IF b.n = 0 THEN (IF a.n = 0 THEN NaN ELSE Infinity)
    ELSE Num(a.n \div b.n)

\* A non-empty string is truthy, '0' and 'NaN' included.
Filled(text) == text # Empty

\* An updateRate that derives quoteAmount whatever the calculation input.
updateRateAppliesAnyInput(form, forceUpdate) == Filled(form.amount) /\ Filled(form.rate)

\* updateRate (lines 255-268).
updateRateApplies(form, forceUpdate) ==
    Filled(form.amount) /\ Filled(form.rate)
      /\ (form.selectedCalculationInput = "rate" \/ forceUpdate)

updateRate(form, forceUpdate) ==
    IF updateRateApplies(form, forceUpdate)
    THEN SetRef(form, "quoteAmount", multipliedBy(form.amount, form.rate))
    ELSE form

\* onQuoteAmountChange (lines 298-309).
onQuoteAmountChangeApplies(form) ==
    Filled(form.amount) /\ Filled(form.quoteAmount)
      /\ form.selectedCalculationInput = "quoteAmount"

onQuoteAmountChange(form) ==
    IF onQuoteAmountChangeApplies(form)
    THEN SetRef(form, "rate", div(form.quoteAmount, form.amount))
    ELSE form

\* The callbacks of the watchers of rate, amount and quoteAmount (lines 319-330).
watchCallback(form, watcher) ==
    IF watcher = "rate" THEN updateRate(form, FALSE)
    ELSE IF watcher = "amount" THEN onQuoteAmountChange(updateRate(form, FALSE))
    ELSE onQuoteAmountChange(form)

\* reset, with the watchers its assignments queue.
resetRefs(form) ==
    LET cleared == reset(form)
    IN  SetRef(SetRef([cleared EXCEPT !.amount = form.amount, !.rate = form.rate],
                      "amount", Empty),
               "rate", Empty)

\* The form takes an event (a user's input, a backend answer) once the
\* watchers queued by the previous one have run: Vue flushes them in the
\* same tick.  While saveData is awaited the form takes no input.
InRange(text) == text.kind = "number" => text.n <= MaxValue

Idle ==
    /\ tradeForm.queue = {}
    /\ ~tradeForm.saving
    /\ InRange(tradeForm.rate) /\ InRange(tradeForm.quoteAmount)

Event(form, step) ==
    [form EXCEPT !.fired = 0, !.event = step, !.step = step, !.returned = None,
                 !.payload = NoPayload,
                 !.result = NoStatus]

\* The user fills the form, or setEditMode loads a trade into it.
EnterFields(entered) ==
    /\ Idle
    /\ tradeForm' =
          SetRef(SetRef([Event(tradeForm, "entered") EXCEPT
                            !.id = entered.id, !.fee = entered.fee,
                            !.feeCurrency = entered.feeCurrency, !.link = entered.link,
                            !.notes = entered.notes, !.type = entered.type],
                        "amount", entered.amount),
                 "rate", entered.rate)

\* The user types into amount, rate or quoteAmount (v-model).
EditField(field, text) ==
    /\ Idle
    /\ tradeForm[field] # text
    /\ tradeForm' = SetRef(Event(tradeForm, "edited"), field, text)

\* swapAmountInput (lines 241-253).
SwapAmountInput ==
    /\ Idle
    /\ tradeForm' =
          [Event(tradeForm, "swapped") EXCEPT
              !.selectedCalculationInput = IF @ = "rate" THEN "quoteAmount" ELSE "rate"]

\* fetchPrice after `await getHistoricPrice(...)` (lines 285-295).
RateNotFound == ("rate" :> <<"external_trade_form.rate_not_found">>)

HistoricPriceFetched(price) ==
    /\ Idle
    /\ tradeForm' =
          IF price.n > 0
          THEN updateRate(SetRef(Event(tradeForm, "priced"), "rate", price), TRUE)
          ELSE IF ~Filled(tradeForm.rate)
               THEN [Event(tradeForm, "priced") EXCEPT !.errorMessages = RateNotFound]
               ELSE Event(tradeForm, "priced")

\* A queued watcher runs.
RunWatcher(watcher) ==
    /\ watcher \in tradeForm.queue
    /\ tradeForm' =
          [watchCallback([tradeForm EXCEPT !.queue = @ \ {watcher}], watcher)
             EXCEPT !.fired = @ + 1, !.step = "watcher"]

\* save(), up to `await save(...)` (lines 200-222).
Save ==
    /\ Idle
    /\ tradeForm' = [Event(tradeForm, "save") EXCEPT
                        !.saving = TRUE, !.payload = savePayload(tradeForm)]

\* saveData reported its status: lines 224-236.
SaveDataReturns(result) ==
    /\ tradeForm.saving
    /\ tradeForm' =
          IF result.success
          THEN [resetRefs(tradeForm) EXCEPT
                   !.saving = FALSE, !.step = "saved", !.result = result,
                   !.returned = "true"]
          ELSE [tradeForm EXCEPT
                   !.errorMessages = IF result.message # ""
                                     THEN deserializeApiErrorMessage(result.message)
                                     ELSE @,
                   !.saving = FALSE, !.step = "saved", !.result = result,
                   !.returned = "false"]

NextTradeForm ==
    \/ \E entered \in EnteredForms : EnterFields(entered) /\ UNCHANGED exceptTradeForm
    \/ \E field \in Watchers, text \in TypedTexts :
          EditField(field, text) /\ UNCHANGED exceptTradeForm
    \/ SwapAmountInput /\ UNCHANGED exceptTradeForm
    \/ \E price \in HistoricPrices : HistoricPriceFetched(price) /\ UNCHANGED exceptTradeForm
    \/ \E watcher \in Watchers : RunWatcher(watcher) /\ UNCHANGED exceptTradeForm
    \/ Save /\ UNCHANGED exceptTradeForm
    \/ \E result \in Statuses : SaveDataReturns(result) /\ UNCHANGED exceptTradeForm

SpecTradeForm == Init /\ [][NextTradeForm]_vars

(***************************************************************************)
(* The sync indicator: importSnapshot (part_000 lines 279-342).             *)
(***************************************************************************)
exceptSnapshotImport ==
    <<nameStoreVars, assetVars, ethNamesRequests, exchangePanel, tradeForm,
      accountForm, tokenDetails>>

\* Files a user can select; the electron build reads their paths.
File(name, path) == [name |-> name, path |-> path]
SnapshotFiles == { File("balances.csv", "/tmp/balances.csv"),
                   File("locations.csv", "/tmp/locations.csv") }

\* A variant that is content with one of the two files.
importFilesCompletedEither(form) ==
    form.balanceSnapshotFile # NoFile \/ form.locationDataSnapshotFile # NoFile

\* importFilesCompleted (lines 279-281).
importFilesCompleted(form) ==
    form.balanceSnapshotFile # NoFile /\ form.locationDataSnapshotFile # NoFile

\* The backend call of lines 294-304.
snapshotCall(form) ==
    IF form.appSession
    THEN [api |-> "importBalancesSnapshot",
          balance |-> form.balanceSnapshotFile.path,
          location |-> form.locationDataSnapshotFile.path]
    ELSE [api |-> "uploadBalancesSnapshot",
          balance |-> form.balanceSnapshotFile,
          location |-> form.locationDataSnapshotFile]

\* The message of lines 310-331.
SnapshotMessage(success) ==
    [title |-> "sync_indicator.import_snapshot.messages.title",
     description |-> IF success
                     THEN "sync_indicator.import_snapshot.messages.success_description"
                     ELSE "sync_indicator.import_snapshot.messages.failed_description",
     success |-> success]

\* <file-upload @selected="balanceSnapshotFile = $event"> (template line 465).
SelectBalanceSnapshotFile(file) ==
    /\ snapshotImport.balanceSnapshotFile # file
    /\ snapshotImport' = [snapshotImport EXCEPT !.balanceSnapshotFile = file,
                                                !.step = "selected"]

\* <file-upload @selected="locationDataSnapshotFile = $event"> (template line 488).
SelectLocationDataSnapshotFile(file) ==
    /\ snapshotImport.locationDataSnapshotFile # file
    /\ snapshotImport' = [snapshotImport EXCEPT !.locationDataSnapshotFile = file,
                                                !.step = "selected"]

\* importSnapshot up to its await (lines 287-304).  The import button shows
\* its loader while importSnapshotLoading holds (template line 513), so the
\* handler runs once at a time; at most MaxTimers logout timers are armed.
ImportSnapshot ==
    /\ ~snapshotImport.importSnapshotLoading
    /\ snapshotImport.logoutTimers < MaxTimers
    /\ snapshotImport' =
          IF ~importFilesCompleted(snapshotImport)
          THEN [snapshotImport EXCEPT !.step = "ignored"]
          ELSE [snapshotImport EXCEPT
                   !.importSnapshotLoading = TRUE,
                   !.call = snapshotCall(snapshotImport),
                   !.outcome = None,
                   !.messages = <<>>,
                   !.step = "started"]

\* The awaited backend call resolved or threw: lines 305-341.
ImportSnapshotSettles(success) ==
    /\ snapshotImport.call # NoCall
    /\ snapshotImport' =
          [snapshotImport EXCEPT
              !.messages = Append(@, SnapshotMessage(success)),
              !.logoutTimers = IF success THEN @ + 1 ELSE @,
              !.importSnapshotLoading = FALSE,
              !.balanceSnapshotFile = NoFile,
              !.locationDataSnapshotFile = NoFile,
              !.call = NoCall,
              !.outcome = IF success THEN "resolved" ELSE "threw",
              !.step = "ended"]

\* The timer of lines 332-334 fires: startPromise(logout()).
LogoutTimerFires ==
    /\ snapshotImport.logoutTimers > 0
    /\ snapshotImport' = [snapshotImport EXCEPT !.logoutTimers = @ - 1,
                                                !.loggedOut = TRUE,
                                                !.step = "logout"]

NextSnapshotImport ==
    \/ \E file \in SnapshotFiles \cup {NoFile} :
          SelectBalanceSnapshotFile(file) /\ UNCHANGED exceptSnapshotImport
    \/ \E file \in SnapshotFiles \cup {NoFile} :
          SelectLocationDataSnapshotFile(file) /\ UNCHANGED exceptSnapshotImport
    \/ ImportSnapshot /\ UNCHANGED exceptSnapshotImport
    \/ \E success \in BOOLEAN : ImportSnapshotSettles(success) /\ UNCHANGED exceptSnapshotImport
    \/ LogoutTimerFires /\ UNCHANGED exceptSnapshotImport

InitSnapshot == InitStore /\ enableEthNames = TRUE /\ InitAssets /\ InitEitherBuild

SpecSnapshotImport == InitSnapshot /\ [][NextSnapshotImport]_vars

\* The backend answers every call, and a timer that is armed fires.
FairSpecSnapshotImport ==
    /\ SpecSnapshotImport
    /\ WF_vars(\E success \in BOOLEAN : ImportSnapshotSettles(success) /\ UNCHANGED exceptSnapshotImport)
    /\ WF_vars(LogoutTimerFires /\ UNCHANGED exceptSnapshotImport)

(***************************************************************************)
(* AddressAccountForm.vue: save (lines 45-100).                             *)
(***************************************************************************)
exceptAccountForm ==
    <<nameStoreVars, assetVars, ethNamesRequests, exchangePanel, tradeForm,
      snapshotImport, tokenDetails>>

\* The chains the form is opened for, each with what isEvm says of it.
Chains == { Chain("ETH", TRUE), Chain("OPTIMISM", TRUE), Chain("BTC", FALSE) }

\* The address the form holds.
FormAddress == "0xA"

\* What a backend call throws: e.message.
ThrownMessages == { "{\"rate\": [\"invalid\"]}", "denied" }

\* An entry of the log of save(): a call it started, or how an awaited call ended.
Started(call, args) == [call |-> call, event |-> "started", args |-> args]
Ended(call, event) == [call |-> call, event |-> event, args |-> <<>>]

\* A variant that refreshes the ENS names on every EVM chain.
isEthOrEvm(chain) == chain.evm

\* isEth (line 48): chain === Blockchain.ETH.
isEth(chain) == chain.id = "ETH"

\* The first backend call of save (lines 53-82).
firstCall(form) ==
    IF form.accountToEdit THEN "editAccount"
    ELSE IF form.allEvmChains /\ form.blockchain.evm THEN "addEvmAccounts"
    ELSE "addAccounts"

\* The `finally` of lines 95-97, and the value save resolves to.
saveReturns(form, value) ==
    [form EXCEPT !.pending = FALSE, !.pc = "idle", !.returned = value]

\* The dialog opens the form for a chain, to add or to edit, and sets its
\* pending flag before it calls save (useAccountDialog, line 31).
SetProps(edit, chain, allEvm, isPendingNow) ==
    /\ accountForm.pc = "idle"
    /\ accountForm' = [InitAccountForm EXCEPT
                          !.accountToEdit = edit, !.blockchain = chain,
                          !.allEvmChains = allEvm, !.pending = isPendingNow]

\* save() up to its first await (lines 45-82).
SaveAccount ==
    /\ accountForm.pc = "idle"
    /\ LET call == firstCall(accountForm)
       IN  accountForm' = [accountForm EXCEPT
                              !.pc = call, !.returned = None,
                              !.wasPending = accountForm.pending,
                              !.log = <<Started(call, <<FormAddress>>)>>]

\* The awaited backend call resolved: lines 60-64, or the end of the try.
BackendCallResolves ==
    /\ accountForm.pc \in {"editAccount", "fetchEnsNames", "addEvmAccounts", "addAccounts"}
    /\ LET form == [accountForm EXCEPT !.log = Append(@, Ended(accountForm.pc, "resolved"))]
           fetchAccounts == Started("fetchAccounts", <<form.blockchain.id>>)
       IN  accountForm' =
             IF form.pc = "editAccount" /\ isEth(form.blockchain)
             THEN [form EXCEPT !.pc = "fetchEnsNames",
                               !.log = Append(@, Started("fetchEnsNames",
                                                         <<FormAddress, "forceUpdate">>))]
             ELSE IF form.pc \in {"editAccount", "fetchEnsNames"}
             THEN saveReturns([form EXCEPT !.log = Append(@, fetchAccounts)], "true")
             ELSE saveReturns(form, "true")

\* The awaited backend call threw: the catch, up to `await setMessage` (lines 83-92).
BackendCallThrows(message) ==
    /\ accountForm.pc \in {"editAccount", "fetchEnsNames", "addEvmAccounts", "addAccounts"}
    /\ accountForm' =
          [accountForm EXCEPT
              !.errorMessages = deserializeApiErrorMessage(message),
              !.log = Append(Append(@, Ended(accountForm.pc, "threw")),
                             Started("setMessage", <<message>>)),
              !.pc = "setMessage"]

\* setMessage resolved: `return false` and the finally (lines 93-97).
SetMessageResolves ==
    /\ accountForm.pc = "setMessage"
    /\ accountForm' = saveReturns(accountForm, "false")

NextAccountForm ==
    \/ \E edit \in BOOLEAN, chain \in Chains, allEvm \in BOOLEAN, isPendingNow \in BOOLEAN :
          SetProps(edit, chain, allEvm, isPendingNow) /\ UNCHANGED exceptAccountForm
    \/ SaveAccount /\ UNCHANGED exceptAccountForm
    \/ BackendCallResolves /\ UNCHANGED exceptAccountForm
    \/ \E message \in ThrownMessages : BackendCallThrows(message) /\ UNCHANGED exceptAccountForm
    \/ SetMessageResolves /\ UNCHANGED exceptAccountForm

SpecAccountForm == Init /\ [][NextAccountForm]_vars

(***************************************************************************)
(* fetchTokenDetails (part_001 lines 233-255).                              *)
(***************************************************************************)
exceptTokenDetails ==
    <<nameStoreVars, assetVars, ethNamesRequests, exchangePanel, tradeForm,
      snapshotImport, accountForm>>

TokenAddresses == { "0xdAC17", "0xA0b86" }
TaskIds == { "task-1" }
TaskErrors == { "timeout", "not a contract" }

\* ERC20Token: what the backend task reports, and the empty object of line 253.
ERC20Token(decimals, name, symbol) == [decimals |-> decimals, name |-> name, symbol |-> symbol]
TaskResults == { ERC20Token("6", "Tether USD", "USDT"), ERC20Token("18", "", "") }
EmptyToken == [empty |-> TRUE]

\* The notification of lines 246-252.
Erc20Notification(address, message) ==
    [title |-> <<"actions.assets.erc20.error.title", address>>,
     message |-> <<"actions.assets.erc20.error.description", message>>,
     display |-> TRUE]

\* A variant without the try/catch: the error leaves fetchTokenDetails.
rethrow(invocation, stage, message) ==
    [invocation EXCEPT !.pc = "settled", !.failedAt = stage, !.outcome = "rejected"]

\* The catch of lines 245-254.
catch(invocation, stage, message) ==
    [invocation EXCEPT
        !.pc = "settled",
        !.failedAt = stage,
        !.notifications = Append(@, Erc20Notification(invocation.address, message)),
        !.outcome = "resolved",
        !.result = EmptyToken]

\* fetchTokenDetails(address) up to `await erc20details(address)` (lines 233-236).
FetchTokenDetails(k, address) ==
    /\ tokenDetails[k].pc \in {"idle", "settled"}
    /\ tokenDetails' = [tokenDetails EXCEPT
                            ![k] = [NoInvocation EXCEPT !.pc = "erc20details",
                                                        !.address = address]]

\* erc20details resolved with a task id: up to `await awaitTask(...)` (lines 236-243).
Erc20detailsResolves(k, taskId) ==
    /\ tokenDetails[k].pc = "erc20details"
    /\ tokenDetails' = [tokenDetails EXCEPT ![k].pc = "awaitTask", ![k].taskId = taskId]

\* awaitTask resolved: `return result` (line 244).
TokenTaskResolves(k, result) ==
    /\ tokenDetails[k].pc = "awaitTask"
    /\ tokenDetails' = [tokenDetails EXCEPT
                            ![k].pc = "settled", ![k].answer = result,
                            ![k].outcome = "resolved", ![k].result = result]

\* erc20details or awaitTask threw.
BackendThrows(k, message) ==
    /\ tokenDetails[k].pc \in {"erc20details", "awaitTask"}
    /\ tokenDetails' = [tokenDetails EXCEPT
                            ![k] = catch(tokenDetails[k], tokenDetails[k].pc, message)]

NextTokenDetails ==
    \/ \E k \in 1 .. MaxPending, address \in TokenAddresses :
          FetchTokenDetails(k, address) /\ UNCHANGED exceptTokenDetails
    \/ \E k \in 1 .. MaxPending, taskId \in TaskIds :
          Erc20detailsResolves(k, taskId) /\ UNCHANGED exceptTokenDetails
    \/ \E k \in 1 .. MaxPending, result \in TaskResults :
          TokenTaskResolves(k, result) /\ UNCHANGED exceptTokenDetails
    \/ \E k \in 1 .. MaxPending, message \in TaskErrors :
          BackendThrows(k, message) /\ UNCHANGED exceptTokenDetails

SpecTokenDetails == Init /\ [][NextTokenDetails]_vars

(***************************************************************************)
(* Properties of the Ethereum Name Store.                                   *)
(*                                                                          *)
(* In a step, lastStep' is the label of the step taken: unprimed variables  *)
(* are the state before the segment ran, primed ones the state after it.    *)
(***************************************************************************)
Range(s) == { s[k] : k \in 1 .. Len(s) }
NoDuplicates(s) == \A j, k \in 1 .. Len(s) : s[j] = s[k] => j = k

\* The valid addresses of `addresses` that the worklist `ens` lacks.
NewValid(ens, addresses) == (Range(addresses) \cap ValidAddresses) \ Range(ens)

EnsApis == {"getEnsNames", "getEnsNamesTask"}
MutationApis == {"addAddressBook", "updateAddressBook", "deleteAddressBook"}
MutationNames == {"addEthAddressBook", "updateEthAddressBook", "deleteEthAddressBook"}

IssuedApis(l) == { l.issued[k].api : k \in 1 .. Len(l.issued) }

\* C1: fetchEnsNames issues no backend call and leaves the worklist, both
\* mirrors and the name mapping unchanged when `addresses` is empty (either
\* forceUpdate), or when forceUpdate is false and `addresses` holds no valid
\* address that the worklist lacks.
C1_FetchEnsNamesNoOp ==
    [][ LET l == lastStep' IN
        (/\ l.name = "fetchEnsNames"
         /\ \/ Len(l.addresses) = 0
            \/ (~l.forceUpdate /\ NewValid(ensAddresses, l.addresses) = {}))
        => /\ l.issued = <<>>
           /\ l.outcome = "returned"
           /\ UNCHANGED <<store, pending>> ]_vars

\* C1 witness: a non-forced call with a known valid address has returned.
C1_Witness ==
    /\ lastStep.name = "fetchEnsNames"
    /\ lastStep.addresses = <<"0xA">>
    /\ ~lastStep.forceUpdate
    /\ ~lastStep.changed
    /\ lastStep.outcome = "returned"
    /\ "0xA" \in Range(ensAddresses)

\* C2: for a valid address a that the worklist lacks, the first
\* fetchEnsNames([a], false) issues exactly one resolution call (getEnsNames)
\* and puts a on the worklist, a stays on the worklist in every later step, a
\* later fetchEnsNames([a], false) (the first one finished or still awaited)
\* issues none, a fetchEnsNames([a], true) with a on the worklist issues
\* exactly one (getEnsNamesTask) and leaves the worklist unchanged, and no
\* later segment of any operation issues a resolution call.
C2_OneResolutionCall ==
    [][ LET l == lastStep' IN
        /\ \A a \in ValidAddresses :
             /\ (l.name = "fetchEnsNames" /\ l.addresses = <<a>> /\ ~l.forceUpdate)
                => IF a \in Range(ensAddresses)
                   THEN l.issued = <<>>
                   ELSE /\ l.issued = <<Call("getEnsNames", None, ensAddresses', <<>>)>>
                        /\ a \in Range(ensAddresses')
             /\ (l.name = "fetchEnsNames" /\ l.addresses = <<a>> /\ l.forceUpdate
                   /\ a \in Range(ensAddresses))
                => /\ l.issued = <<Call("getEnsNamesTask", None, ensAddresses, <<>>)>>
                   /\ ensAddresses' = ensAddresses
             /\ a \in Range(ensAddresses) => a \in Range(ensAddresses')
        /\ l.name # "fetchEnsNames" => IssuedApis(l) \cap EnsApis = {} ]_vars

\* C2 witness: a second fetchEnsNames(["0xA"], false) found the worklist
\* unchanged while a getEnsNames call is still awaited.
C2_Witness ==
    /\ lastStep.name = "fetchEnsNames"
    /\ lastStep.addresses = <<"0xA">>
    /\ ~lastStep.forceUpdate
    /\ lastStep.issued = <<>>
    /\ ensAddresses = <<"0xA">>
    /\ Request("getEnsNames", None) \in Awaited

\* C3: every getEthNames request carries the duplicate-free union of the
\* addresses of both mirrors and the worklist as they are when fetchEthNames
\* starts, a direct fetchEthNames() issues exactly that one request, and when
\* the request succeeds the name mapping is exactly the response.
C3_FetchEthNamesUnionAndReplace ==
    [][ LET l == lastStep' IN
        /\ \A k \in 1 .. Len(l.issued) :
             l.issued[k].api = "getEthNames"
             => /\ NoDuplicates(l.issued[k].addresses)
                /\ Range(l.issued[k].addresses)
                     = Range(MapAddress(ethAddressBookGlobal'))
                         \cup Range(MapAddress(ethAddressBookPrivate'))
                         \cup Range(ensAddresses')
        /\ l.name = "fetchEthNames"
             => /\ Len(l.issued) = 1 /\ l.issued[1].api = "getEthNames"
                /\ UNCHANGED store
        /\ (l.action = "getEthNames" /\ l.response.kind = "resolved")
             => /\ ethNames' = l.response.names
                /\ DOMAIN ethNames' = DOMAIN l.response.names ]_vars

\* C3 witness: a request over both mirrors and the worklist succeeded and the
\* mapping holds the response, which has no entry for the worklist's "0xB".
C3_Witness ==
    /\ lastStep.action = "getEthNames"
    /\ lastStep.response.kind = "resolved"
    /\ ethNames = ("0xA" :> "alice.eth")
    /\ ethAddressBookGlobal # <<>>
    /\ ethAddressBookPrivate # <<>>
    /\ "0xB" \in Range(ensAddresses)

\* C4: when getEthNames is rejected, fetchEthNames completes without raising,
\* raises exactly one notification carrying the error's message, and leaves
\* the name mapping, the worklist and both mirrors unchanged.
C4_FetchEthNamesFailSoft ==
    [][ LET l == lastStep' IN
        (l.action = "getEthNames" /\ l.response.kind = "rejected")
        => /\ l.outcome = "returned"
           /\ Len(l.notified) = 1
           /\ l.notified[1].title = "eth_names.error.title"
           /\ l.notified[1].message[2]
                = (IF l.response.error.kind = "Error"
                   THEN l.response.error.message ELSE "")
           /\ l.issued = <<>>
           /\ UNCHANGED store ]_vars

\* C4 witness: getEthNames was rejected with an Error while a mapping from an
\* earlier success is in place.
C4_Witness ==
    /\ lastStep.action = "getEthNames"
    /\ lastStep.response.kind = "rejected"
    /\ lastStep.response.error.kind = "Error"
    /\ Len(lastStep.notified) = 1
    /\ ethNames # <<>>

\* C5: when getEthAddressBook is rejected, both mirrors are unchanged, no
\* getEthNames request (nor any other call) is issued, one notification is
\* raised and the operation completes without raising.
C5_FetchEthAddressBookFailure ==
    [][ LET l == lastStep' IN
        (l.action = "getEthAddressBook" /\ l.response.kind = "rejected")
        => /\ UNCHANGED store
           /\ l.issued = <<>>
           /\ CopiesIn(Request("getEthNames", None), pending')
                = CopiesIn(Request("getEthNames", None), pending)
           /\ Len(l.notified) = 1
           /\ l.notified[1].title = "eth_address_book.actions.fetch.error.title"
           /\ l.outcome = "returned" ]_vars

\* C5 witness: the fetch of the global book failed while the global mirror
\* holds entries.
C5_Witness ==
    /\ lastStep.action = "getEthAddressBook"
    /\ lastStep.response.kind = "rejected"
    /\ lastStep.location = "global"
    /\ ethAddressBookGlobal # <<>>

\* C6: when getEthAddressBook succeeds, the mirror of the location becomes the
\* returned list, the other mirror and the worklist are unchanged, and one
\* getEthNames request is issued whose addresses are computed from the mirrors
\* after the replacement.
C6_FetchEthAddressBookSuccess ==
    [][ LET l == lastStep' IN
        (l.action = "getEthAddressBook" /\ l.response.kind = "resolved")
        => /\ IF l.location = "global"
              THEN /\ ethAddressBookGlobal' = l.response.entries
                   /\ ethAddressBookPrivate' = ethAddressBookPrivate
              ELSE /\ ethAddressBookPrivate' = l.response.entries
                   /\ ethAddressBookGlobal' = ethAddressBookGlobal
           /\ UNCHANGED <<ensAddresses, ethNames>>
           /\ Len(l.issued) = 1
           /\ l.issued[1].api = "getEthNames"
           /\ Range(l.issued[1].addresses)
                = Range(MapAddress(IF l.location = "global" THEN l.response.entries
                                   ELSE ethAddressBookGlobal))
                    \cup Range(MapAddress(IF l.location = "global" THEN ethAddressBookPrivate
                                          ELSE l.response.entries))
                    \cup Range(ensAddresses)
           /\ Request("getEthNames", None) \in BagToSet(pending') ]_vars

\* C6 witness: the private book was fetched, the global mirror is still empty
\* and the request carries the address of a new private entry.
C6_Witness ==
    /\ lastStep.action = "getEthAddressBook"
    /\ lastStep.response.kind = "resolved"
    /\ lastStep.location = "private"
    /\ ethAddressBookPrivate # <<>>
    /\ ethAddressBookGlobal = <<>>
    /\ "0xC" \in Range(lastStep.issued[1].addresses)

\* C7: add/update/deleteEthAddressBook first issue the backend mutation only;
\* when it reports success the one call issued next is
\* getEthAddressBook(location) without an address filter, and getEthNames is
\* issued only in the segment that receives that list; when it reports
\* failure no call is issued, the operation returns and the worklist, both
\* mirrors and the name mapping are unchanged.
C7_MutationThenRefetch ==
    [][ LET l == lastStep' IN
        /\ (l.name \in MutationNames)
             => /\ Len(l.issued) = 1
                /\ l.issued[1].api \in MutationApis
                /\ l.issued[1].location = l.location
                /\ UNCHANGED store
        /\ (l.action \in MutationApis /\ l.response.kind = "resolved")
             => /\ UNCHANGED store
                /\ IF l.response.ok
                   THEN /\ l.issued = <<Call("getEthAddressBook", l.location, NoAddresses, <<>>)>>
                        /\ l.outcome = "suspended"
                        /\ Request("getEthAddressBook", l.location) \in BagToSet(pending')
                   ELSE /\ l.issued = <<>>
                        /\ l.outcome = "returned"
                        /\ BagCardinality(pending') = BagCardinality(pending) - 1
        /\ (l.action = "getEthAddressBook" /\ "getEthNames" \in IssuedApis(l))
             => l.response.kind = "resolved" ]_vars

\* C7 witness: deleteAddressBook reported success and the private list is
\* being fetched.
C7_Witness ==
    /\ lastStep.action = "deleteAddressBook"
    /\ lastStep.response.kind = "resolved"
    /\ lastStep.response.ok
    /\ lastStep.location = "private"
    /\ Request("getEthAddressBook", "private") \in Awaited

\* C8: every rejection of a backend call is caught inside the store: the
\* operation completes without raising and a notification is raised.
C8_EveryFailureCaught ==
    lastStep.response.kind = "rejected"
    => /\ lastStep.outcome = "returned"
       /\ Len(lastStep.notified) >= 1

\* C9: a fetchEnsNames call that went past its short-circuit with a non-empty
\* worklist does not end before its getEthNames request is issued: the answer
\* to getEnsNamesTask is followed by awaitTask, and the answer to awaitTask or
\* getEnsNames by exactly one getEthNames request.
C9_RefreshOncePerCall ==
    /\ lastStep.action = "getEnsNamesTask"
         => (lastStep.outcome = "suspended" /\ IssuedApis(lastStep) = {"awaitTask"})
    /\ lastStep.action \in {"getEnsNames", "awaitTask"}
         => (/\ lastStep.outcome = "suspended"
             /\ Len(lastStep.issued) = 1
             /\ lastStep.issued[1].api = "getEthNames")

\* C10: ethNameSelector(address) is null while the setting is disabled; while
\* it is enabled it is the mapping's entry for the address, or null when the
\* mapping has none.
C10_EthNameSelector ==
    \A address \in Addresses :
        ethNameSelector(address)
          = IF ~enableEthNames THEN Null
            ELSE IF address \in DOMAIN ethNames THEN ethNames[address]
            ELSE Null

\* C10 witness: the setting was switched (last to enabled) after the mapping
\* was fetched; the mapping holds an empty name for one address and no entry
\* for another.
C10_Witness ==
    /\ lastStep.action = "enableEthNames"
    /\ enableEthNames
    /\ "0xB" \in DOMAIN ethNames
    /\ ethNames["0xB"] = ""
    /\ ethNameSelector("0xB") = ""
    /\ ethNameSelector("0xA") = Null

(***************************************************************************)
(* Properties of the asset-info projections.                                *)
(*                                                                          *)
(* The properties name the cache entry a projection is built from on their  *)
(* own, from the setting and the arguments, not through assetInfoKey.       *)
(***************************************************************************)

\* The canonical key of identifier: its association target when the
\* association applies, the identifier itself otherwise.
CanonicalKey(identifier, enableAssociation) ==
    IF enableAssociation /\ treatEth2AsEth /\ identifier = "ETH2" THEN "ETH" ELSE identifier

Resolved(key) == key \in DOMAIN cache /\ key \notin assetPending

\* C11: assetInfo is null for an empty or undefined identifier, and null
\* while the identifier is pending in the Asset Cache; once the cache has
\* resolved a non-EVM identifier to empty metadata, assetInfo is a record
\* whose name and symbol are both the empty string.
C11_AssetInfoNullOrEmpty ==
    \A enableAssociation, isCollectionParent \in BOOLEAN :
       /\ \A id \in {"", Undefined} :
             assetInfo(id, enableAssociation, isCollectionParent) = NullInfo
       /\ \A id \in AssetIdentifiers :
             LET info == assetInfo(id, enableAssociation, isCollectionParent)
                 key == CanonicalKey(id, enableAssociation)
             IN  /\ id \in assetPending => info = NullInfo
                 /\ ( /\ id \notin EvmIdentifiers
                      /\ id \notin assetPending
                      /\ Resolved(key)
                      /\ cache[key] = EmptyMetadata )
                    => (info # NullInfo /\ Field(info, "name") = "" /\ Field(info, "symbol") = "")

\* XYZ went from pending (null) to resolved with empty metadata, while another
\* identifier is still pending.
C11_Witness ==
    /\ Resolved("XYZ") /\ cache["XYZ"] = EmptyMetadata
    /\ Field(assetInfo("XYZ", TRUE, TRUE), "name") = ""
    /\ Field(assetInfo("XYZ", TRUE, TRUE), "symbol") = ""
    /\ "ETH" \in assetPending
    /\ assetInfo("ETH", TRUE, TRUE) = NullInfo

\* C12: whenever assetInfo(id, enableAssociation, ...) is not null, the
\* canonical key it asked the cache for (the associated identifier when
\* enableAssociation holds, else id) is not pending.
C12_NoRecordWhileKeyPending ==
    \A id \in IdentifierInputs, enableAssociation, isCollectionParent \in BOOLEAN :
       assetInfo(id, enableAssociation, isCollectionParent) # NullInfo
          => CanonicalKey(id, enableAssociation) \notin assetPending

\* C13: getAssociatedAssetIdentifier(id) is 'ETH' when id is 'ETH2' and the
\* setting is enabled, and id in every other case; this holds for the value
\* the setting has now, whatever it was before.
C13_AssociatedIdentifier ==
    \A id \in AssetIdentifiers :
       getAssociatedAssetIdentifier(id) =
          IF id = "ETH2" /\ treatEth2AsEth THEN "ETH" ELSE id

\* The setting was changed from its initial value, and ETH2 stands for itself.
C13_Witness ==
    /\ treatEth2AsEth = FALSE
    /\ getAssociatedAssetIdentifier("ETH2") = "ETH2"
    /\ getAssociatedAssetIdentifier("ETH") = "ETH"

\* The record assetInfo builds for `identifier` from the metadata `data`.
AssetInfoFrom(identifier, data, isCollectionParent) ==
    IF isCustomAsset(data) THEN customAssetInfo(data)
    ELSE otherAssetInfo(identifier, data, collectionData(data, isCollectionParent))

\* C14: with enableAssociation true, assetInfo('ETH2') is built from the
\* cached metadata of 'ETH' while the setting is enabled and of 'ETH2' while
\* it is disabled, a function of the current setting and cache only; with
\* enableAssociation false it is built from 'ETH2' whatever the setting.
C14_Eth2FollowsSetting ==
    \A isCollectionParent \in BOOLEAN :
       LET associated == assetInfo("ETH2", TRUE, isCollectionParent)
           plain == assetInfo("ETH2", FALSE, isCollectionParent)
       IN  /\ associated # NullInfo =>
                associated = AssetInfoFrom("ETH2",
                                retrieve(IF treatEth2AsEth THEN "ETH" ELSE "ETH2"),
                                isCollectionParent)
           /\ plain # NullInfo =>
                plain = AssetInfoFrom("ETH2", retrieve("ETH2"), isCollectionParent)

\* The setting is enabled, the cache resolved ETH and ETH2 to different
\* metadata, and the two readings of ETH2 differ.
C14_Witness ==
    /\ treatEth2AsEth
    /\ Resolved("ETH") /\ Resolved("ETH2")
    /\ cache["ETH"] = AssetMetadata("Ethereum", "ETH", FALSE, "own chain", Undefined)
    /\ cache["ETH2"] = AssetMetadata("Token A", "TKA", FALSE, "evm token", "X")
    /\ Field(assetInfo("ETH2", TRUE, FALSE), "name") = "Ethereum"
    /\ Field(assetInfo("ETH2", FALSE, FALSE), "name") = "Token A"

\* C15: the association is single-hop and has no cycle:
\* getAssociatedAssetIdentifier applied to its own result returns it
\* unchanged, and no target of the association map is a key of the map.
C15_SingleHop ==
    /\ \A id \in AssetIdentifiers :
          getAssociatedAssetIdentifier(getAssociatedAssetIdentifier(id))
             = getAssociatedAssetIdentifier(id)
    /\ \A key \in DOMAIN assetAssociationMap :
          assetAssociationMap[key] \notin DOMAIN assetAssociationMap

\* The map holds its association (the setting was disabled and enabled
\* again: ETH2 itself is in the cache).
C15_Witness ==
    /\ treatEth2AsEth
    /\ "ETH2" \in DOMAIN assetAssociationMap
    /\ getAssociatedAssetIdentifier("ETH2") = "ETH"
    /\ Resolved("ETH2")

\* The metadata assetInfo is built from, for the properties below.
MetadataOf(identifier, enableAssociation) ==
    LET key == CanonicalKey(identifier, enableAssociation)
    IN  IF key \in DOMAIN cache THEN cache[key] ELSE EmptyMetadata

\* The name and the symbol of the item's collection, undefined when the item
\* names no collection or the mapping does not hold it.
CollectionValue(data, field) ==
    IF Truthy(data.collectionId) /\ data.collectionId \in DOMAIN fetchedAssetCollections
    THEN fetchedAssetCollections[data.collectionId][field]
    ELSE Undefined

\* The fallback of an identifier: 'EVM Token: ' and its address when it is
\* EVM-shaped, '' otherwise.
Fallback(identifier) ==
    IF identifier = "eip155:1/erc20:0xdAC17" THEN "EVM Token: 0xdAC17" ELSE ""

FirstNonEmpty(a, b, c) == IF Truthy(a) THEN a ELSE IF Truthy(b) THEN b ELSE c

\* C16: for metadata that flags isCustomAsset or whose assetType is the
\* custom-asset constant, assetInfo returns a record with isCustomAsset true
\* and symbol equal to the metadata's name, name and the other fields as
\* cached; for all other metadata the returned isCustomAsset is not true.
C16_CustomAsset ==
    \A id \in AssetIdentifiers, enableAssociation, isCollectionParent \in BOOLEAN :
       LET info == assetInfo(id, enableAssociation, isCollectionParent)
           data == MetadataOf(id, enableAssociation)
       IN  info # NullInfo =>
              IF data.isCustomAsset \/ data.assetType = "custom asset"
              THEN /\ info.isCustomAsset = TRUE
                   /\ info.symbol = data.name
                   /\ info.name = data.name
                   /\ info.assetType = data.assetType
                   /\ info.collectionId = data.collectionId
              ELSE info.isCustomAsset # TRUE

\* A custom asset under an EVM-shaped identifier, in a fetched collection:
\* the symbol is the asset's name, not the collection's, not the fallback.
C16_Witness ==
    /\ Resolved("eip155:1/erc20:0xdAC17")
    /\ cache["eip155:1/erc20:0xdAC17"] = AssetMetadata("My Collectible", "IGN", TRUE, Undefined, "X")
    /\ "X" \in DOMAIN fetchedAssetCollections
    /\ Field(assetInfo("eip155:1/erc20:0xdAC17", TRUE, TRUE), "symbol") = "My Collectible"
    /\ Field(assetInfo("eip155:1/erc20:0xdAC17", TRUE, TRUE), "isCustomAsset") = TRUE

\* C17: for metadata of a non-custom asset that names a collection the
\* mapping holds with a name (symbol): with isCollectionParent true the
\* resolved name (symbol) is the collection's; with isCollectionParent false
\* it is the item's own, and the record is the one an empty collections
\* mapping gives.
C17_CollectionOverride ==
    \A id \in AssetIdentifiers, enableAssociation \in BOOLEAN :
       LET data == MetadataOf(id, enableAssociation)
           parent == assetInfo(id, enableAssociation, TRUE)
           item == assetInfo(id, enableAssociation, FALSE)
           custom == data.isCustomAsset \/ data.assetType = "custom asset"
       IN  (parent # NullInfo /\ ~custom) =>
              /\ \A field \in {"name", "symbol"} :
                    Truthy(CollectionValue(data, field)) =>
                       /\ parent[field] = CollectionValue(data, field)
                       /\ Truthy(data[field]) => item[field] = data[field]
              /\ item = [data EXCEPT
                            !.name = FirstNonEmpty(Undefined, data.name, Fallback(id)),
                            !.symbol = FirstNonEmpty(Undefined, data.symbol, Fallback(id))]

\* Token A of collection X: 'Collection A' as parent, 'Token A' as item.
C17_Witness ==
    /\ Resolved("XYZ")
    /\ cache["XYZ"] = AssetMetadata("Token A", "TKA", FALSE, "evm token", "X")
    /\ "X" \in DOMAIN fetchedAssetCollections
    /\ Field(assetInfo("XYZ", TRUE, TRUE), "name") = "Collection A"
    /\ Field(assetInfo("XYZ", TRUE, FALSE), "name") = "Token A"

\* C18: for a non-custom asset, name and symbol are each, independently, the
\* first non-empty of the collection's value, the metadata's value and the
\* fallback; the fallback is 'EVM Token: ' followed by the address of the
\* identifier passed to assetInfo when it is EVM-shaped, '' otherwise.
C18_NameAndSymbol ==
    \A id \in AssetIdentifiers, enableAssociation, isCollectionParent \in BOOLEAN :
       LET info == assetInfo(id, enableAssociation, isCollectionParent)
           data == MetadataOf(id, enableAssociation)
           custom == data.isCustomAsset \/ data.assetType = "custom asset"
       IN  (info # NullInfo /\ ~custom) =>
              \A field \in {"name", "symbol"} :
                 info[field] =
                    FirstNonEmpty(IF isCollectionParent THEN CollectionValue(data, field)
                                                        ELSE Undefined,
                                  data[field], Fallback(id))

\* An EVM identifier the cache resolved without metadata shows its address;
\* Token A in a collection without a symbol takes the collection's name and
\* its own symbol.
C18_Witness ==
    /\ Resolved("eip155:1/erc20:0xdAC17")
    /\ cache["eip155:1/erc20:0xdAC17"] = EmptyMetadata
    /\ Field(assetInfo("eip155:1/erc20:0xdAC17", TRUE, TRUE), "name") = "EVM Token: 0xdAC17"
    /\ Field(assetInfo("eip155:1/erc20:0xdAC17", TRUE, TRUE), "symbol") = "EVM Token: 0xdAC17"
    /\ Resolved("XYZ")
    /\ cache["XYZ"] = AssetMetadata("Token A", "TKA", FALSE, "evm token", "X")
    /\ Field(assetInfo("XYZ", TRUE, TRUE), "name") = "Collection A"
    /\ Field(assetInfo("XYZ", TRUE, TRUE), "symbol") = "TKA"

\* C19, as claimed: for every EVM-shaped identifier, whenever assetInfo
\* returns a record, its name and symbol are not both empty.
C19_NameOrSymbol ==
    \A id \in EvmIdentifiers, enableAssociation, isCollectionParent \in BOOLEAN :
       LET info == assetInfo(id, enableAssociation, isCollectionParent)
       IN  info # NullInfo => (Truthy(info.name) \/ Truthy(info.symbol))

\* C19, amended: for every EVM-shaped identifier, whenever assetInfo returns
\* a record that is not a custom asset's, its name and symbol are not both
\* empty.
C19_NameOrSymbolUnlessCustom ==
    \A id \in EvmIdentifiers, enableAssociation, isCollectionParent \in BOOLEAN :
       LET info == assetInfo(id, enableAssociation, isCollectionParent)
       IN  (info # NullInfo /\ info.isCustomAsset # TRUE)
              => (Truthy(info.name) \/ Truthy(info.symbol))

\* An EVM token whose metadata has neither name nor symbol, in a collection
\* that is not fetched.
C19_Witness ==
    /\ Resolved("eip155:1/erc20:0xdAC17")
    /\ cache["eip155:1/erc20:0xdAC17"] = AssetMetadata("", Undefined, FALSE, "evm token", "X")
    /\ "X" \notin DOMAIN fetchedAssetCollections
    /\ assetInfo("eip155:1/erc20:0xdAC17", FALSE, TRUE) # NullInfo
    /\ Truthy(Field(assetInfo("eip155:1/erc20:0xdAC17", FALSE, TRUE), "name"))

\* C20: assetSymbol(id, enableAssociation) and assetName(id,
\* enableAssociation) are the symbol and the name of assetInfo(id,
\* enableAssociation) with isCollectionParent true, and '' when id is empty,
\* assetInfo is null or the field is empty or absent.
C20_SymbolAndName ==
    \A id \in IdentifierInputs, enableAssociation \in BOOLEAN :
       LET info == assetInfo(id, enableAssociation, TRUE)
           Expected(field) ==
              IF id \in {"", Undefined} \/ info = NullInfo THEN ""
              ELSE IF info[field] \in {"", Undefined} THEN ""
              ELSE info[field]
       IN  /\ assetSymbol(id, enableAssociation) = Expected("symbol")
           /\ assetName(id, enableAssociation) = Expected("name")
           /\ assetSymbol(id, enableAssociation) \notin {Null, Undefined}
           /\ assetName(id, enableAssociation) \notin {Null, Undefined}

\* The symbol of a collection (which only a collection parent shows), '' for
\* a pending identifier, and '' for a custom asset without a name.
C20_Witness ==
    /\ Resolved("XYZ")
    /\ cache["XYZ"] = AssetMetadata("Token A", "TKA", FALSE, "evm token", "X")
    /\ assetSymbol("XYZ", TRUE) = "COL"
    /\ assetName("XYZ", TRUE) = "Collection A"
    /\ "ETH" \in assetPending
    /\ assetSymbol("ETH", TRUE) = ""
    /\ Resolved("ETH2")
    /\ cache["ETH2"] = AssetMetadata(Undefined, "IGN", FALSE, "custom asset", Undefined)
    /\ assetSymbol("ETH2", FALSE) = ""

\* C21: tokenAddress(id, enableAssociation) is the empty string whenever id
\* is empty or assetInfo(id, enableAssociation) is null, in particular while
\* id is pending in the Asset Cache.
C21_TokenAddressDefault ==
    \A id \in IdentifierInputs, enableAssociation \in BOOLEAN :
       (~Truthy(id) \/ assetInfo(id, enableAssociation, TRUE) = NullInfo)
          => tokenAddress(id, enableAssociation) = ""

\* C22: the projections assetInfo, assetSymbol, assetName, tokenAddress,
\* getAssociatedAssetIdentifier and ethNameSelector never raise: for every
\* identifier or address and every state of the cache, the settings and the
\* name mapping, evaluation yields a record, a string or null.
C22_ProjectionsNeverRaise ==
    /\ \A id \in IdentifierInputs, enableAssociation, isCollectionParent \in BOOLEAN :
          LET info == assetInfo(id, enableAssociation, isCollectionParent)
          IN  /\ ~assetInfoRaises(id, enableAssociation, isCollectionParent)
              /\ info = NullInfo \/ DOMAIN info = DOMAIN EmptyMetadata
              /\ assetSymbol(id, enableAssociation) \in STRING
              /\ assetName(id, enableAssociation) \in STRING
              /\ tokenAddress(id, enableAssociation) \in STRING
    /\ \A id \in AssetIdentifiers : getAssociatedAssetIdentifier(id) \in STRING
    /\ \A address \in Addresses : ethNameSelector(address) \in STRING \cup {Null}

\* Every state of the cache the claim lists, at once: a pending identifier,
\* empty metadata, custom metadata without a name, a collectionId without a
\* fetched collection; with names in the name mapping.
C22_Witness ==
    /\ "ETH" \in assetPending
    /\ Resolved("XYZ") /\ cache["XYZ"] = EmptyMetadata
    /\ Resolved("ETH2")
    /\ cache["ETH2"] = AssetMetadata(Undefined, "IGN", FALSE, "custom asset", Undefined)
    /\ Resolved("eip155:1/erc20:0xdAC17")
    /\ cache["eip155:1/erc20:0xdAC17"] = AssetMetadata("", Undefined, FALSE, "evm token", "X")
    /\ "X" \notin DOMAIN fetchedAssetCollections
    /\ ~treatEth2AsEth
    /\ enableEthNames
    /\ ethNameSelector("0xB") = ""
    /\ ethNameSelector("0xA") = Null
    /\ assetInfo("ETH2", TRUE, TRUE) # NullInfo
    /\ assetInfo("XYZ", TRUE, TRUE) # NullInfo

(***************************************************************************)
(* Further properties of the Ethereum Name Store.                           *)
(***************************************************************************)

\* s is a prefix of t.
IsPrefix(s, t) == Len(s) <= Len(t) /\ \A k \in 1 .. Len(s) : t[k] = s[k]

\* C23: the ENS worklist holds only structurally valid addresses and no
\* duplicates, and it only grows: every step of the store keeps the addresses
\* of the worklist, in their order, and a fetchEnsNames call adds exactly the
\* valid addresses of its argument that the worklist lacked.
C23_WorklistInvariants ==
    [][ LET l == lastStep' IN
        /\ Range(ensAddresses') \subseteq ValidAddresses
        /\ NoDuplicates(ensAddresses')
        /\ IsPrefix(ensAddresses, ensAddresses')
        /\ IF l.name = "fetchEnsNames"
           THEN Range(ensAddresses') = Range(ensAddresses) \cup NewValid(ensAddresses, l.addresses)
           ELSE ensAddresses' = ensAddresses ]_vars

\* A call with a malformed address, a repeated one and one already in the
\* worklist added the single new valid address behind the old one.
C23_Witness ==
    /\ lastStep.name = "fetchEnsNames"
    /\ lastStep.addresses = <<"0xB", "bad", "0xB", "0xA">>
    /\ lastStep.changed
    /\ ensAddresses = <<"0xA", "0xB">>

\* C24: when fetchEthNames requests overlap and all succeed, then once no
\* store operation is in flight the name mapping is the response to the
\* request that was issued last; the response to an earlier request that
\* arrives later does not overwrite it.
C24_LastIssuedWins ==
    pending = EmptyBag => ethNames = ethNamesRequests.newest

(***************************************************************************)
(* Properties of the exchange settings panel.                               *)
(***************************************************************************)

\* The list without its k-th entry.
Without(list, k) == SubSeq(list, 1, k - 1) \o SubSeq(list, k + 1, Len(list))

\* C25: toggleSync(exchange) submits a list that differs from the local list
\* in exactly one entry: the entry of the exchange (same name and location)
\* removed, every other entry kept, or else one entry for it appended; when
\* the update has returned, the local list is the settings store's, and a
\* notification is raised only when the update reported failure.
C25_ToggleSyncOneEntry ==
    [][ LET list == exchangePanel.nonSyncingExchanges
            l == exchangePanel'.step
            at == { k \in 1 .. Len(list) : list[k] = Exchange(l.exchange.location, l.exchange.name) }
        IN  /\ l.name = "toggleSync" =>
                 IF at # {}
                 THEN \E k \in at : l.submitted = Without(list, k)
                 ELSE l.submitted = Append(list, Exchange(l.exchange.location, l.exchange.name))
            /\ l.name = "updateReturned" =>
                 /\ exchangePanel'.nonSyncingExchanges = exchangePanel'.current
                 /\ l.notified <=> exchangePanel'.current # l.submitted ]_vars

(***************************************************************************)
(* Properties of the external trade form.                                   *)
(***************************************************************************)

EnteredFields == {"id", "amount", "rate", "fee", "feeCurrency", "link", "notes", "type"}

\* C26: save() returns true exactly when saveData reports success, and then
\* the form is reset (id, amount, rate, fee, feeCurrency, link and notes
\* cleared, type 'buy', error messages emptied); when saveData reports
\* failure it returns false, every entered field keeps its value, and a
\* message, if present, replaces the error messages by what it deserialises
\* to; the payload carries tradeId exactly when the form holds an id.
C26_SaveResetsOnSuccessOnly ==
    [][ LET form == tradeForm
            after == tradeForm'
        IN  /\ after.step = "save" =>
                 /\ "tradeId" \in DOMAIN after.payload <=> form.id # ""
                 /\ form.id # "" => after.payload.tradeId = form.id
            /\ after.step = "saved" =>
                 LET result == after.result IN
                    /\ result \in Statuses
                    /\ after.returned = (IF result.success THEN "true" ELSE "false")
                    /\ IF result.success
                       THEN /\ after.id = "" /\ after.link = "" /\ after.notes = ""
                            /\ after.feeCurrency = ""
                            /\ after.amount = Empty /\ after.rate = Empty /\ after.fee = Empty
                            /\ after.type = "buy"
                            /\ after.errorMessages = NoErrors
                       ELSE /\ \A field \in EnteredFields : after[field] = form[field]
                            /\ after.errorMessages =
                                  IF result.message = "" THEN form.errorMessages
                                  ELSE IF result.message = "{\"rate\": [\"invalid\"]}"
                                       THEN ("rate" :> <<"invalid">>)
                                       ELSE NoErrors ]_vars

\* An edited trade was saved with its tradeId and the form was reset, field
\* errors of an earlier failed save included.
C26_Witness ==
    /\ tradeForm.step = "saved"
    /\ tradeForm.returned = "true"
    /\ "tradeId" \in DOMAIN tradeForm.payload
    /\ tradeForm.payload.tradeId = "t1"
    /\ tradeForm.id = ""
    /\ tradeForm.errorMessages = NoErrors

\* C27: the watcher cascade among amount, rate and quoteAmount terminates:
\* after one user edit or one fetched historic price (updateRate(true) in
\* 'quoteAmount' mode included) at most as many watcher runs follow as there
\* are watchers; a watcher run in 'rate' mode never overwrites rate, and a
\* watcher run in 'quoteAmount' mode never derives quoteAmount.
C27_WatcherCascadeTerminates ==
    [][ LET form == tradeForm
            after == tradeForm'
        IN  after.step = "watcher" =>
              /\ after.fired = form.fired + 1
              /\ after.fired <= Cardinality(Watchers)
              /\ after.selectedCalculationInput = form.selectedCalculationInput
              /\ form.selectedCalculationInput = "rate" => after.rate = form.rate
              /\ form.selectedCalculationInput = "quoteAmount" =>
                    after.quoteAmount = form.quoteAmount ]_vars

\* A fetched price forced a quote amount in 'quoteAmount' mode, the watchers
\* of rate and quoteAmount ran after it, and the cascade came to rest.
C27_Witness ==
    /\ tradeForm.event = "priced"
    /\ tradeForm.step = "watcher"
    /\ tradeForm.selectedCalculationInput = "quoteAmount"
    /\ tradeForm.fired >= 2
    /\ tradeForm.queue = {}
    /\ tradeForm.rate = Num(2)
    /\ tradeForm.amount = Num(3)
    /\ tradeForm.quoteAmount = Num(6)

(***************************************************************************)
(* Properties of the sync indicator.                                       *)
(***************************************************************************)

\* C28: importSnapshot does nothing unless both the balance snapshot file and
\* the location-data snapshot file are selected; once it started it ends,
\* whether the backend import resolved or threw, with importSnapshotLoading
\* false and both selected files cleared, having shown exactly one message,
\* of success or of failure; a logout is scheduled by a successful import and
\* by nothing else.
C28_ImportSnapshotEnds ==
    /\ [][ LET form == snapshotImport
               after == snapshotImport'
               bothSelected == form.balanceSnapshotFile # NoFile
                                 /\ form.locationDataSnapshotFile # NoFile
           IN  /\ after.step = "ignored" =>
                     /\ ~bothSelected
                     /\ after = [form EXCEPT !.step = "ignored"]
               /\ after.step = "started" =>
                     /\ bothSelected
                     /\ after.importSnapshotLoading
                     /\ after.call # NoCall
               /\ after.step = "ended" =>
                     /\ ~after.importSnapshotLoading
                     /\ after.balanceSnapshotFile = NoFile
                     /\ after.locationDataSnapshotFile = NoFile
                     /\ Len(after.messages) = 1
                     /\ after.messages[1].success <=> after.outcome = "resolved"
                     /\ after.logoutTimers =
                           form.logoutTimers + (IF after.outcome = "resolved" THEN 1 ELSE 0)
               /\ after.step # "ended" => after.logoutTimers <= form.logoutTimers ]_vars
    /\ (snapshotImport.step = "started") ~> (snapshotImport.step = "ended")

\* A failed import ended with its one failure message and no logout armed,
\* after an earlier one had succeeded and logged out.
C28_Witness ==
    /\ snapshotImport.step = "ended"
    /\ snapshotImport.outcome = "threw"
    /\ Len(snapshotImport.messages) = 1
    /\ ~snapshotImport.messages[1].success
    /\ snapshotImport.logoutTimers = 0
    /\ snapshotImport.loggedOut
    /\ ~snapshotImport.importSnapshotLoading

(***************************************************************************)
(* Properties of the account form.                                         *)
(***************************************************************************)

\* The positions of the log at which `call` was started, or ended with `event`.
LogStarted(call) ==
    { k \in 1 .. Len(accountForm.log) :
        accountForm.log[k].call = call /\ accountForm.log[k].event = "started" }
LogEnded(call, event) ==
    { k \in 1 .. Len(accountForm.log) :
        accountForm.log[k].call = call /\ accountForm.log[k].event = event }
LogThrew ==
    { k \in 1 .. Len(accountForm.log) : accountForm.log[k].event = "threw" }

\* C29: save() has set pending to false when it returns; it returns false,
\* having stored the deserialised error messages and shown one message,
\* exactly when a backend call threw, and true otherwise; in edit mode on
\* ETH the forced fetchEnsNames([address], true) is started only after
\* editAccount completed and completes before fetchAccounts is started; in
\* edit mode on another chain no ENS refresh is made.
C29_SavePendingAndOrder ==
    /\ accountForm.returned # None =>
          /\ ~accountForm.pending
          /\ accountForm.returned = "false" <=> LogThrew # {}
          /\ accountForm.returned = "false" =>
                /\ Cardinality(LogStarted("setMessage")) = 1
                /\ \A k \in LogStarted("setMessage") :
                      /\ k - 1 \in LogThrew
                      /\ accountForm.errorMessages =
                            IF accountForm.log[k].args = <<"{\"rate\": [\"invalid\"]}">>
                            THEN ("rate" :> <<"invalid">>)
                            ELSE NoErrors
          /\ accountForm.returned = "true" => LogStarted("setMessage") = {}
    /\ \A k \in LogStarted("fetchEnsNames") :
          /\ accountForm.accountToEdit
          /\ accountForm.blockchain.id = "ETH"
          /\ accountForm.log[k].args = <<FormAddress, "forceUpdate">>
          /\ \E j \in LogEnded("editAccount", "resolved") : j < k
    /\ \A k \in LogStarted("fetchAccounts") :
          /\ LogEnded("editAccount", "resolved") # {}
          /\ accountForm.blockchain.id = "ETH" =>
                \E j \in LogEnded("fetchEnsNames", "resolved") : j < k
    /\ accountForm.accountToEdit /\ accountForm.blockchain.id # "ETH" =>
          LogStarted("fetchEnsNames") = {}

\* An edit on ETH was saved: editAccount, then the forced ENS refresh, then
\* fetchAccounts, and pending, which the dialog had set, is false.
C29_Witness ==
    /\ accountForm.returned = "true"
    /\ accountForm.accountToEdit
    /\ accountForm.blockchain.id = "ETH"
    /\ accountForm.wasPending
    /\ ~accountForm.pending
    /\ LogStarted("fetchEnsNames") # {}
    /\ LogStarted("fetchAccounts") # {}

(***************************************************************************)
(* Properties of fetchTokenDetails.                                        *)
(***************************************************************************)

\* C30: fetchTokenDetails never rejects: when starting the backend task or
\* awaiting it failed it has raised exactly one notification and resolves to
\* an empty token object; when both succeeded it resolves to the task's
\* result and has raised no notification.
C30_FetchTokenDetailsNeverRejects ==
    \A k \in 1 .. MaxPending :
        LET invocation == tokenDetails[k]
        IN  /\ invocation.outcome # "rejected"
            /\ invocation.pc # "settled" => invocation.notifications = <<>>
            /\ invocation.pc = "settled" =>
                  /\ invocation.outcome = "resolved"
                  /\ IF invocation.failedAt # None
                     THEN /\ Len(invocation.notifications) = 1
                          /\ invocation.notifications[1].display
                          /\ invocation.result = EmptyToken
                     ELSE /\ invocation.notifications = <<>>
                          /\ invocation.answer \in TaskResults
                          /\ invocation.result = invocation.answer

\* One invocation failed while awaiting its task and another while starting
\* it; each resolved to the empty token with its one notification.
C30_Witness ==
    /\ tokenDetails[1].pc = "settled"
    /\ tokenDetails[1].failedAt = "awaitTask"
    /\ tokenDetails[1].result = EmptyToken
    /\ Len(tokenDetails[1].notifications) = 1
    /\ tokenDetails[2].pc = "settled"
    /\ tokenDetails[2].failedAt = "erc20details"
    /\ tokenDetails[2].outcome = "resolved"
====
